---- MODULE Spec2Model ----
(***************************************************************************)
(* Model of tudat's ExposinsShaping shape-based low-thrust trajectory leg  *)
(* (Tudat/Astrodynamics/ShapeBasedMethods/exposinsShaping.h and            *)
(* exposinsShapingWorking.cpp).                                            *)
(*                                                                         *)
(* Numbers.  Doubles are modelled by integers plus one non-finite value    *)
(* NaN (IEEE NaN and the infinities are folded into it).  Angles are       *)
(* counted in ticks of a quarter turn, so PI is 2 ticks and sin and cos    *)
(* take the exact values -1, 0, 1.  Normalised time is counted in Julian   *)
(* years and physical time in quarter days, so JULIAN_YEAR is 1461.        *)
(***************************************************************************)
EXTENDS Integers, Sequences, FiniteSets, TLC

\* ------------------------------------------------------------------------
\* Bounds of the model
\* ------------------------------------------------------------------------
MaxRevolutions == 1
MaxFreeCoefficient == 1
MaxIterations == 2
MaxRequiredTimeOfFlight == 6
MaxQueryAngle == 8
MaxQueryTime == 2

\* ------------------------------------------------------------------------
\* Constants of the program
\* ------------------------------------------------------------------------
PI == 2
JULIAN_YEAR == 1461
TUDAT_NAN == -999999
NaN == TUDAT_NAN

\* ------------------------------------------------------------------------
\* Double arithmetic
\* ------------------------------------------------------------------------
IsNaN(a) == a = NaN

Plus(a, b) == IF IsNaN(a) \/ IsNaN(b) THEN NaN ELSE a + b

Minus(a, b) == IF IsNaN(a) \/ IsNaN(b) THEN NaN ELSE a - b

Times(a, b) == IF IsNaN(a) \/ IsNaN(b) THEN NaN ELSE a * b

Divide(a, b) == IF IsNaN(a) \/ IsNaN(b) \/ b = 0 THEN NaN ELSE a \div b

RECURSIVE RootBetween(_, _, _)
RootBetween(a, low, high) ==
    IF high - low <= 1 THEN low
    ELSE LET middle == (low + high) \div 2
         IN IF middle * middle <= a THEN RootBetween(a, middle, high)
            ELSE RootBetween(a, low, middle)

\* std::sqrt: NaN for a negative argument
Sqrt(a) == IF IsNaN(a) \/ a < 0 THEN NaN ELSE RootBetween(a, 0, 46341)

Abs(a) == IF a < 0 THEN -a ELSE a

Cos(t) == LET q == t % (2 * PI) IN
          IF q = 0 THEN 1 ELSE IF q = PI THEN -1 ELSE 0

Sin(t) == Cos(t - PI \div 2)

\* ------------------------------------------------------------------------
\* Composite shape functions (compositeFunctionExposinsShaping.h): a fixed
\* basis of component functions, each with closed-form derivatives, weighted
\* by the coefficient vector the composite function currently holds.
\* Radial basis: 1, t, sin t, t cos t, cos 2t, cos 3t, sin 3t.
\* Elevation basis: cos t, sin t, cos 2t, 1.
\* ------------------------------------------------------------------------
RadialIndices == 0 .. 6

ElevationIndices == 0 .. 3

\* order 0 is the value, orders 1..3 the derivatives w.r.t. the azimuth angle
RadialComponentFunction(index, order, t) ==
    CASE index = 0 -> IF order = 0 THEN 1 ELSE 0
      [] index = 1 -> IF order = 0 THEN t ELSE IF order = 1 THEN 1 ELSE 0
      [] index = 2 -> CASE order = 0 -> Sin(t)
                        [] order = 1 -> Cos(t)
                        [] order = 2 -> -Sin(t)
                        [] OTHER -> -Cos(t)
      [] index = 3 -> CASE order = 0 -> t * Cos(t)
                        [] order = 1 -> Cos(t) - t * Sin(t)
                        [] order = 2 -> -2 * Sin(t) - t * Cos(t)
                        [] OTHER -> -3 * Cos(t) + t * Sin(t)
      [] index = 4 -> CASE order = 0 -> Cos(2 * t)
                        [] order = 1 -> -2 * Sin(2 * t)
                        [] order = 2 -> -4 * Cos(2 * t)
                        [] OTHER -> 8 * Sin(2 * t)
      [] index = 5 -> CASE order = 0 -> Cos(3 * t)
                        [] order = 1 -> -3 * Sin(3 * t)
                        [] order = 2 -> -9 * Cos(3 * t)
                        [] OTHER -> 27 * Sin(3 * t)
      [] OTHER     -> CASE order = 0 -> Sin(3 * t)
                        [] order = 1 -> 3 * Cos(3 * t)
                        [] order = 2 -> -9 * Sin(3 * t)
                        [] OTHER -> -27 * Cos(3 * t)

ElevationComponentFunction(index, order, t) ==
    CASE index = 0 -> CASE order = 0 -> Cos(t)
                        [] order = 1 -> -Sin(t)
                        [] order = 2 -> -Cos(t)
                        [] OTHER -> Sin(t)
      [] index = 1 -> RadialComponentFunction(2, order, t)
      [] index = 2 -> RadialComponentFunction(4, order, t)
      [] OTHER     -> RadialComponentFunction(0, order, t)

RECURSIVE WeightedSum(_, _, _, _, _)
WeightedSum(coefficients, radial, order, t, i) ==
    IF i < 0 THEN 0
    ELSE Plus(WeightedSum(coefficients, radial, order, t, i - 1),
              Times(coefficients[i],
                    IF radial THEN RadialComponentFunction(i, order, t)
                    ELSE ElevationComponentFunction(i, order, t)))

\* evaluateCompositeFunction and its First/Second/ThirdDerivative
EvaluateRadial(coefficients, order, t) == WeightedSum(coefficients, TRUE, order, t, 6)

EvaluateElevation(coefficients, order, t) == WeightedSum(coefficients, FALSE, order, t, 3)

\* ------------------------------------------------------------------------
\* Time equation
\* ------------------------------------------------------------------------
centralBodyGravitationalParameter_ == 39

\* What the member functions below read from the two composite functions at
\* currentAzimuthAngle: the value (order 0) and the first three derivatives.
CompositeFunctionsAt(rc, ec, currentAzimuthAngle) ==
    [radial |-> [order \in 0 .. 3 |-> EvaluateRadial(rc, order, currentAzimuthAngle)],
     elevation |-> [order \in 0 .. 3 |-> EvaluateElevation(ec, order, currentAzimuthAngle)],
     azimuth |-> currentAzimuthAngle]

TrigSin(a) == IF IsNaN(a) THEN NaN ELSE Sin(a)

TrigCos(a) == IF IsNaN(a) THEN NaN ELSE Cos(a)

Squared(a) == Times(a, a)

\* computeScalarFunctionTimeEquation, shape: CompositeFunctionsAt the angle
ScalarFunctionTimeEquation(shape) ==
    LET radialFunctionValue == shape.radial[0]
        firstDerivativeRadialFunction == shape.radial[1]
        secondDerivativeRadialFunction == shape.radial[2]
        elevationFunctionValue == shape.elevation[0]
        firstDerivativeElevationFunction == shape.elevation[1]
        secondDerivativeElevationFunction == shape.elevation[2]
        F1 == Plus(Squared(firstDerivativeElevationFunction),
                   Squared(TrigCos(elevationFunctionValue)))
    IN Plus(Plus(Plus(Minus(0, secondDerivativeRadialFunction),
                      Divide(Times(2, Squared(firstDerivativeRadialFunction)),
                             radialFunctionValue)),
                 Divide(Times(Times(firstDerivativeRadialFunction, firstDerivativeElevationFunction),
                              Minus(secondDerivativeElevationFunction,
                                    Times(TrigSin(elevationFunctionValue),
                                          TrigCos(elevationFunctionValue)))),
                        F1)),
            Times(radialFunctionValue, F1))

LessThanZero(a) == ~IsNaN(a) /\ a < 0

\* The exception the time integrand throws
InfeasibleError ==
    [type |-> "std::runtime_error",
     what |-> "Error, trajectory not curved toward the central body, and thus not feasible."]

\* Variant: the feasibility test written with <= rejects a radicand of zero
TimeDerivativeOrThrowAtZero(scalarFunctionTimeEquation, radius) ==
    IF ~IsNaN(scalarFunctionTimeEquation) /\ scalarFunctionTimeEquation <= 0
    THEN [throws |-> TRUE, value |-> NaN]
    ELSE [throws |-> FALSE,
          value |-> Sqrt(Divide(Times(scalarFunctionTimeEquation, Squared(radius)),
                                centralBodyGravitationalParameter_))]

\* Variant: the integrand without its feasibility test, as the other
\* square roots of the class are written
TimeDerivativeUnchecked(scalarFunctionTimeEquation, radius) ==
    [throws |-> FALSE,
     value |-> Sqrt(Divide(Times(scalarFunctionTimeEquation, Squared(radius)),
                           centralBodyGravitationalParameter_))]

\* The body of the lambda derivativeTimeFunction once scalarFunctionTimeEquation
\* is computed: a throw, or dt/dtheta
TimeDerivativeOrThrow(scalarFunctionTimeEquation, radius) ==
    IF LessThanZero(scalarFunctionTimeEquation)
    THEN [throws |-> TRUE, value |-> NaN]
    ELSE [throws |-> FALSE,
          value |-> Sqrt(Divide(Times(scalarFunctionTimeEquation, Squared(radius)),
                                centralBodyGravitationalParameter_))]

\* The lambda derivativeTimeFunction at one azimuth angle
DerivativeTimeFunction(rc, ec, currentAzimuthAngle) ==
    TimeDerivativeOrThrow(
        ScalarFunctionTimeEquation(CompositeFunctionsAt(rc, ec, currentAzimuthAngle)),
        EvaluateRadial(rc, 0, currentAzimuthAngle))

\* ------------------------------------------------------------------------
\* Numerical quadrature (createQuadrature / getQuadrature): the integrand is
\* evaluated at the nodes, which lie strictly inside the interval, and the
\* weighted sum is scaled by the length of the interval.
\* ------------------------------------------------------------------------
QuadratureNodes(lowerBound, upperBound) ==
    LET a == IF lowerBound < upperBound THEN lowerBound ELSE upperBound
        b == IF lowerBound < upperBound THEN upperBound ELSE lowerBound
    IN IF b - a >= 2 THEN (a + 1) .. (b - 1) ELSE {a}

RECURSIVE SumOfValues(_, _)
SumOfValues(values, nodes) ==
    IF nodes = {} THEN 0
    ELSE LET t == CHOOSE n \in nodes : TRUE
         IN Plus(values[t], SumOfValues(values, nodes \ {t}))

\* values: the integrand's result at every node
GetQuadrature(values, lowerBound, upperBound) ==
    LET nodes == QuadratureNodes(lowerBound, upperBound)
    IN IF \E t \in nodes : values[t].throws
       THEN [throws |-> TRUE, value |-> NaN]
       ELSE [throws |-> FALSE,
             value |-> Divide(Times(SumOfValues([t \in nodes |-> values[t].value], nodes),
                                    upperBound - lowerBound),
                              Cardinality(nodes))]

\* The integral of derivativeTimeFunction from the quadrature's lower bound
TimeIntegral(rc, ec, lowerBound, upperBound) ==
    GetQuadrature([t \in QuadratureNodes(lowerBound, upperBound) |->
                       DerivativeTimeFunction(rc, ec, t)],
                  lowerBound, upperBound)

\* ------------------------------------------------------------------------
\* State
\* ------------------------------------------------------------------------
VARIABLES
    initialState,                        \* spherical initial state handed in (azimuth in (-PI, PI])
    finalState,                          \* spherical final state handed in
    numberOfRevolutions_,
    requiredTimeOfFlight_,               \* normalised
    integratorSettings,                  \* the caller's IntegratorSettings object
    initialValueFreeCoefficient_,
    initialAzimuthAngle_,
    finalAzimuthAngle_,
    coefficientsRadialDistanceFunction_,
    coefficientsElevationAngleFunction_,
    radialDistanceCompositeFunction_,    \* coefficients held by the composite function
    elevationAngleCompositeFunction_,
    quadratureSettings_,                 \* lower bound of the quadrature
    travelledAzimuthAngle_,
    requiredGamma_,
    interpolator_,                       \* time -> azimuth angle table
    pc,                                  \* where the constructor is
    iterations,                          \* evaluations made by the running root-finder
    trials,                              \* the running root-finder's evaluations
    evaluationTrace,                     \* what the last objective evaluation did, in order
    updatedFreeCoefficient,              \* value returned by rootFinder->execute
    thrown,                              \* what was thrown inside the constructor
    exception,                           \* what left the constructor
    queryResult                          \* last query made on the constructed object

vars == <<initialState, finalState, numberOfRevolutions_, requiredTimeOfFlight_,
          integratorSettings, initialValueFreeCoefficient_, initialAzimuthAngle_,
          finalAzimuthAngle_, coefficientsRadialDistanceFunction_,
          coefficientsElevationAngleFunction_, radialDistanceCompositeFunction_,
          elevationAngleCompositeFunction_, quadratureSettings_, travelledAzimuthAngle_,
          requiredGamma_, interpolator_, pc, iterations, trials, evaluationTrace,
          updatedFreeCoefficient, thrown, exception, queryResult>>

inputVars == <<initialState, finalState, numberOfRevolutions_, requiredTimeOfFlight_,
               integratorSettings, initialAzimuthAngle_, finalAzimuthAngle_>>

coefficientVars == <<coefficientsRadialDistanceFunction_, coefficientsElevationAngleFunction_,
                     radialDistanceCompositeFunction_, elevationAngleCompositeFunction_>>

NoError == [type |-> "none", what |-> ""]

NoQuery == [operation |-> "none", argument |-> 0, throws |-> FALSE, value |-> <<>>]

\* ------------------------------------------------------------------------
\* Inputs
\* ------------------------------------------------------------------------
AzimuthValues == (1 - PI) .. PI

FreeCoefficientValues == 0 .. MaxFreeCoefficient

StepSizes == {JULIAN_YEAR}

RootFinderTolerance == 0

\* ------------------------------------------------------------------------
\* Constructor, up to the first root-finding
\* ------------------------------------------------------------------------
\* azimuth of a spherical state brought into [0, 2 PI)
NormalizedAzimuth(azimuth) == IF azimuth < 0 THEN azimuth + 2 * PI ELSE azimuth

\* Variant: the branch without wrap forgets the requested revolutions
FinalAzimuthAngleWithoutRevolutions(initialAzimuth, finalAzimuth, numberOfRevolutions) ==
    IF finalAzimuth - initialAzimuth < 0
    THEN finalAzimuth + 2 * PI * (numberOfRevolutions + 1)
    ELSE finalAzimuth

\* final value of the azimuth angle, from the two normalised azimuths
FinalAzimuthAngle(initialAzimuth, finalAzimuth, numberOfRevolutions) ==
    IF finalAzimuth - initialAzimuth < 0
    THEN finalAzimuth + 2 * PI * (numberOfRevolutions + 1)
    ELSE finalAzimuth + 2 * PI * numberOfRevolutions

Unset(size) == [i \in 0 .. (size - 1) |-> NaN]

\* the members set by the constructor's initialiser list; the others are unset
Init ==
    /\ initialState \in [azimuth : AzimuthValues]
    /\ finalState \in [azimuth : AzimuthValues]
    /\ numberOfRevolutions_ \in 0 .. MaxRevolutions
    /\ \E requiredTimeOfFlight \in {k * JULIAN_YEAR : k \in 0 .. MaxRequiredTimeOfFlight} :
           requiredTimeOfFlight_ = Divide(requiredTimeOfFlight, JULIAN_YEAR)
    /\ integratorSettings \in [initialTimeStep_ : StepSizes, initialTime_ : {0}]
    /\ initialValueFreeCoefficient_ \in FreeCoefficientValues
    /\ initialAzimuthAngle_ = NaN
    /\ finalAzimuthAngle_ = NaN
    /\ coefficientsRadialDistanceFunction_ = Unset(7)
    /\ coefficientsElevationAngleFunction_ = Unset(4)
    /\ radialDistanceCompositeFunction_ = Unset(7)
    /\ elevationAngleCompositeFunction_ = Unset(4)
    /\ quadratureSettings_ = NaN
    /\ travelledAzimuthAngle_ = NaN
    /\ requiredGamma_ = NaN
    /\ interpolator_ = <<>>
    /\ pc = "ExposinsShaping"
    /\ iterations = 0
    /\ trials = <<>>
    /\ evaluationTrace = <<>>
    /\ updatedFreeCoefficient = NaN
    /\ thrown = NoError
    /\ exception = NoError
    /\ queryResult = NoQuery

InitialCoefficients(size) == [i \in 0 .. (size - 1) |-> 1]

\* the constructor's body up to its call of iterateToMatchRequiredTimeOfFlight:
\* the azimuth angles, the composite functions with every coefficient 1.0, and
\* the quadrature from the initial azimuth angle
SetUpShapeFunctions ==
    /\ pc = "ExposinsShaping"
    /\ initialAzimuthAngle_' = NormalizedAzimuth(initialState.azimuth)
    /\ finalAzimuthAngle_' = FinalAzimuthAngle(NormalizedAzimuth(initialState.azimuth),
                                               NormalizedAzimuth(finalState.azimuth),
                                               numberOfRevolutions_)
    /\ coefficientsRadialDistanceFunction_' = InitialCoefficients(7)
    /\ coefficientsElevationAngleFunction_' = InitialCoefficients(4)
    /\ radialDistanceCompositeFunction_' = InitialCoefficients(7)
    /\ elevationAngleCompositeFunction_' = InitialCoefficients(4)
    /\ quadratureSettings_' = NormalizedAzimuth(initialState.azimuth)
    /\ pc' = "iterateToMatchRequiredTimeOfFlight"
    /\ UNCHANGED <<initialState, finalState, numberOfRevolutions_, requiredTimeOfFlight_,
                   integratorSettings, initialValueFreeCoefficient_, travelledAzimuthAngle_,
                   requiredGamma_, interpolator_, iterations, trials, evaluationTrace,
                   updatedFreeCoefficient, thrown, exception, queryResult>>

\* ------------------------------------------------------------------------
\* Root-finding on the free coefficient
\* ------------------------------------------------------------------------
\* computeNormalizedTimeOfFlight, on the coefficients the composite functions hold
NormalizedTimeOfFlight ==
    TimeIntegral(radialDistanceCompositeFunction_, elevationAngleCompositeFunction_,
                 quadratureSettings_, finalAzimuthAngle_)

\* TimeOfFlightFunction::evaluate: the calls it makes, in order
TimeOfFlightFunctionEvaluate ==
    <<"resetFreeCoefficientFunction_", "computeTimeOfFlightFunction_",
      "getRequiredTimeOfFlightfunction_">>

\* the error the root-finder raises when its iteration budget is spent
NonConvergenceError(lastResidual, iterationCount) ==
    [type |-> "root-finder", what |-> "no root found within the iteration budget",
     residual |-> lastResidual, iterations |-> iterationCount]

IsRoot(residual) == ~IsNaN(residual) /\ Abs(residual) <= RootFinderTolerance

\* Variant: a handler around execute that swallows the infeasible error
IterateToMatchCatchesInfeasible(error, continueAt) ==
    IF error = InfeasibleError
    THEN [pc |-> continueAt, exception |-> NoError]
    ELSE [pc |-> "failed", exception |-> error]

\* Variant: a handler around execute that keeps the last trial when the
\* root-finder gives up
IterateToMatchAcceptsLastTrial(error, continueAt) ==
    IF error.type = "root-finder"
    THEN [pc |-> continueAt, exception |-> NoError]
    ELSE [pc |-> "failed", exception |-> error]

\* iterateToMatchRequiredTimeOfFlight(Exposins) has no handler: what execute
\* throws leaves the function, and the constructor with it
IterateToMatchPropagates(error, continueAt) == [pc |-> "failed", exception |-> error]

\* one call of timeOfFlightFunction->evaluate( inputValue ) by the root-finder
EvaluateTimeOfFlightFunction(inputValue) ==
    /\ pc = "iterateToMatchRequiredTimeOfFlight"
    /\ iterations < MaxIterations
    /\ iterations' = iterations + 1
    /\ initialValueFreeCoefficient_' = inputValue
    /\ LET currentTimeOfFlight == NormalizedTimeOfFlight
       IN IF currentTimeOfFlight.throws
          THEN LET out == IterateToMatchPropagates(InfeasibleError,
                                                   "iterateToMatchRequiredTimeOfFlight")
               IN /\ thrown' = InfeasibleError
                  /\ pc' = out.pc
                  /\ exception' = out.exception
                  /\ evaluationTrace' = SubSeq(TimeOfFlightFunctionEvaluate, 1, 2)
                  /\ trials' = trials
          ELSE /\ trials' = Append(trials,
                                   [inputValue |-> inputValue,
                                    residual |-> Minus(requiredTimeOfFlight_,
                                                       currentTimeOfFlight.value)])
               /\ evaluationTrace' = TimeOfFlightFunctionEvaluate
               /\ UNCHANGED <<pc, thrown, exception>>
    /\ UNCHANGED <<inputVars, coefficientVars, quadratureSettings_, travelledAzimuthAngle_,
                   requiredGamma_, interpolator_, updatedFreeCoefficient, queryResult>>

\* rootFinder->execute returns one of the roots it evaluated; the constructor
\* goes on to the exponential-sinusoid part
RootFinderReturns(i) ==
    /\ pc = "iterateToMatchRequiredTimeOfFlight"
    /\ i \in 1 .. Len(trials)
    /\ IsRoot(trials[i].residual)
    /\ updatedFreeCoefficient' = trials[i].inputValue
    /\ travelledAzimuthAngle_' = PI \div 2 + 2 * PI * 2
    /\ requiredGamma_' = 0
    /\ quadratureSettings_' = 0
    /\ pc' = "iterateToMatchRequiredTimeOfFlightExposins"
    /\ iterations' = 0
    /\ trials' = <<>>
    /\ UNCHANGED <<inputVars, coefficientVars, initialValueFreeCoefficient_, interpolator_,
                   evaluationTrace, thrown, exception, queryResult>>

\* the root-finder gives up: budget spent and none of its evaluations is a root
RootFinderFails ==
    /\ pc = "iterateToMatchRequiredTimeOfFlight"
    /\ iterations = MaxIterations
    /\ \A i \in 1 .. Len(trials) : ~IsRoot(trials[i].residual)
    /\ LET error == NonConvergenceError(trials[Len(trials)].residual, iterations)
           out == IterateToMatchPropagates(error, "iterateToMatchRequiredTimeOfFlightExposins")
       IN /\ thrown' = error
          /\ pc' = out.pc
          /\ exception' = out.exception
    /\ UNCHANGED <<inputVars, coefficientVars, initialValueFreeCoefficient_,
                   quadratureSettings_, travelledAzimuthAngle_, requiredGamma_, interpolator_,
                   iterations, trials, evaluationTrace, updatedFreeCoefficient, queryResult>>

\* ------------------------------------------------------------------------
\* Exponential-sinusoid part of the constructor.  Gamma is counted in degrees.
\* ------------------------------------------------------------------------
lowerBoundGamma_ == -81

upperBoundGamma_ == 81

GammaValues == {g \in {-25, 0, 10} : lowerBoundGamma_ <= g /\ g <= upperBoundGamma_}

\* computeNormalizedTimeOfFlightExposins: the quadrature of
\* computeBaseTimeOfFlightFunction over [0, travelledAzimuthAngle_] for the
\* constructor's winding parameter 1/12 and radii 1 and 1.5, to the nearest year
NormalizedTimeOfFlightExposins(gamma) ==
    CASE gamma = -40 -> 1
      [] gamma = -25 -> 1
      [] gamma = -10 -> 2
      [] gamma = 0   -> 3
      [] gamma = 10  -> 6
      [] OTHER       -> NaN

\* one evaluation of the exponential-sinusoid objective by the second root-finder
EvaluateTimeOfFlightFunctionExposins(inputValue) ==
    /\ pc = "iterateToMatchRequiredTimeOfFlightExposins"
    /\ iterations < MaxIterations
    /\ iterations' = iterations + 1
    /\ requiredGamma_' = inputValue
    /\ trials' = Append(trials,
                        [inputValue |-> inputValue,
                         residual |-> Minus(requiredTimeOfFlight_,
                                            NormalizedTimeOfFlightExposins(inputValue))])
    /\ UNCHANGED <<inputVars, coefficientVars, initialValueFreeCoefficient_,
                   quadratureSettings_, travelledAzimuthAngle_, interpolator_, pc,
                   evaluationTrace, updatedFreeCoefficient, thrown, exception, queryResult>>

RootFinderExposinsFails ==
    /\ pc = "iterateToMatchRequiredTimeOfFlightExposins"
    /\ iterations = MaxIterations
    /\ \A i \in 1 .. Len(trials) : ~IsRoot(trials[i].residual)
    /\ LET error == NonConvergenceError(trials[Len(trials)].residual, iterations)
           out == IterateToMatchPropagates(error, "constructed")
       IN /\ thrown' = error
          /\ pc' = out.pc
          /\ exception' = out.exception
    /\ UNCHANGED <<inputVars, coefficientVars, initialValueFreeCoefficient_,
                   quadratureSettings_, travelledAzimuthAngle_, requiredGamma_, interpolator_,
                   iterations, trials, evaluationTrace, updatedFreeCoefficient, queryResult>>

\* ------------------------------------------------------------------------
\* Time -> azimuth angle table
\* ------------------------------------------------------------------------
Ceil(numerator, denominator) == (numerator + denominator - 1) \div denominator

\* Eigen::VectorXd::LinSpaced( size, low, high )
LinSpaced(size, low, high) ==
    [i \in 1 .. size |->
        IF size = 1 THEN high ELSE low + ((i - 1) * (high - low)) \div (size - 1)]

\* computeCurrentTimeFromAzimuthAngle
CurrentTimeFromAzimuthAngle(rc, ec, lowerBound, currentAzimuthAngle) ==
    TimeIntegral(rc, ec, lowerBound, currentAzimuthAngle)

\* the constructor's dataToInterpolate: the map from each epoch to the azimuth
\* angle stored under it (a later angle replaces an earlier one with its epoch)
InterpolationTable(azimuthAngles, epochs) ==
    LET size == Len(azimuthAngles)
        keys == {Times(epochs[i].value, JULIAN_YEAR) : i \in 1 .. size}
        Last(key) == CHOOSE i \in 1 .. size :
                         /\ Times(epochs[i].value, JULIAN_YEAR) = key
                         /\ \A j \in 1 .. size :
                                Times(epochs[j].value, JULIAN_YEAR) = key => j <= i
    IN IF \E i \in 1 .. size : epochs[i].throws
       THEN [throws |-> TRUE, table |-> <<>>]
       ELSE [throws |-> FALSE, table |-> [key \in keys |-> azimuthAngles[Last(key)]]]

\* the epochs of azimuthAnglesToComputeAssociatedEpochs
EpochsOfAzimuthAngles(rc, ec, lowerBound, azimuthAngles) ==
    InterpolationTable(azimuthAngles,
                       [i \in 1 .. Len(azimuthAngles) |->
                           CurrentTimeFromAzimuthAngle(rc, ec, lowerBound, azimuthAngles[i])])

\* the table built from the time of flight the constructor computed
TableForTimeOfFlight(rc, ec, lowerBound, initialStepSize, timeOfFlight) ==
    IF timeOfFlight.throws \/ IsNaN(timeOfFlight.value)
    THEN [throws |-> timeOfFlight.throws, table |-> <<>>]
    ELSE EpochsOfAzimuthAngles(rc, ec, lowerBound,
                               LinSpaced(Ceil(timeOfFlight.value * JULIAN_YEAR, initialStepSize),
                                         initialAzimuthAngle_, finalAzimuthAngle_))

DataToInterpolate(rc, ec, lowerBound, initialStepSize) ==
    TableForTimeOfFlight(rc, ec, lowerBound, initialStepSize,
                         TimeIntegral(rc, ec, lowerBound, finalAzimuthAngle_))

\* rootFinder->execute returns a root of the exponential-sinusoid objective;
\* the constructor runs to its end
RootFinderExposinsReturns(i) ==
    /\ pc = "iterateToMatchRequiredTimeOfFlightExposins"
    /\ i \in 1 .. Len(trials)
    /\ IsRoot(trials[i].residual)
    /\ requiredGamma_' = -25
    /\ quadratureSettings_' = initialAzimuthAngle_
    /\ LET data == DataToInterpolate(radialDistanceCompositeFunction_,
                                     elevationAngleCompositeFunction_,
                                     initialAzimuthAngle_,
                                     integratorSettings.initialTimeStep_)
       IN IF data.throws
          THEN /\ thrown' = InfeasibleError
               /\ pc' = "failed"
               /\ exception' = InfeasibleError
               /\ interpolator_' = interpolator_
          ELSE /\ interpolator_' = data.table
               /\ pc' = "constructed"
               /\ UNCHANGED <<thrown, exception>>
    /\ iterations' = 0
    /\ trials' = <<>>
    /\ UNCHANGED <<inputVars, coefficientVars, initialValueFreeCoefficient_,
                   travelledAzimuthAngle_, evaluationTrace, updatedFreeCoefficient,
                   queryResult>>

\* ------------------------------------------------------------------------
\* Kinematics of the shaped trajectory
\* ------------------------------------------------------------------------
ASTRONOMICAL_UNIT == 1461

Norm(v) == Sqrt(Plus(Plus(Squared(v[1]), Squared(v[2])), Squared(v[3])))

Scaled(factor, v) == [i \in 1 .. 3 |-> Times(factor, v[i])]

VectorSum(v, w) == [i \in 1 .. 3 |-> Plus(v[i], w[i])]

DerivativeScalarFunctionTimeEquation(shape) ==
    LET radialFunctionValue == shape.radial[0]
        firstDerivativeRadialFunction == shape.radial[1]
        secondDerivativeRadialFunction == shape.radial[2]
        thirdDerivativeRadialFunction == shape.radial[3]
        elevationFunctionValue == shape.elevation[0]
        firstDerivativeElevationFunction == shape.elevation[1]
        secondDerivativeElevationFunction == shape.elevation[2]
        thirdDerivativeElevationFunction == shape.elevation[3]
        sin2E == TrigSin(Times(2, elevationFunctionValue))
        cos2E == TrigCos(Times(2, elevationFunctionValue))
        F1 == Plus(Squared(firstDerivativeElevationFunction),
                   Squared(TrigCos(elevationFunctionValue)))
        F2 == Minus(secondDerivativeElevationFunction, Divide(sin2E, 2))
        F3 == Plus(Plus(cos2E, Times(2, Squared(firstDerivativeElevationFunction))), 1)
        F4 == Minus(Times(2, secondDerivativeElevationFunction), sin2E)
        t1 == Minus(Times(F1, firstDerivativeRadialFunction), thirdDerivativeRadialFunction)
        t2 == Divide(Times(2, Times(firstDerivativeRadialFunction,
                                    Squared(firstDerivativeRadialFunction))),
                     Squared(radialFunctionValue))
        t3 == Divide(Times(4, Times(firstDerivativeRadialFunction,
                                    secondDerivativeRadialFunction)),
                     radialFunctionValue)
        t4 == Times(Times(F4, firstDerivativeElevationFunction), radialFunctionValue)
        t5 == Divide(Times(Times(2, Times(firstDerivativeElevationFunction,
                                          firstDerivativeRadialFunction)),
                           Minus(thirdDerivativeElevationFunction,
                                 Times(firstDerivativeElevationFunction, cos2E))),
                     F3)
        t6 == Divide(Times(Times(F2, firstDerivativeElevationFunction),
                           secondDerivativeRadialFunction), F1)
        t7 == Divide(Times(Times(F2, firstDerivativeRadialFunction),
                           secondDerivativeElevationFunction), F1)
        t8 == Divide(Times(Times(Times(4, Times(F4, F2)),
                                 Squared(firstDerivativeElevationFunction)),
                           firstDerivativeRadialFunction),
                     Squared(F3))
    IN Minus(Plus(Plus(Plus(Plus(Plus(Minus(t1, t2), t3), t4), t5), t6), t7), t8)

\* computeFirstDerivativeAzimuthAngleWrtTime
FirstDerivativeAzimuthAngleWrtTime(shape) ==
    LET scalarFunctionTimeEquation == ScalarFunctionTimeEquation(shape)
        radialDistance == shape.radial[0]
    IN Sqrt(Divide(centralBodyGravitationalParameter_,
                   Times(scalarFunctionTimeEquation, Squared(radialDistance))))

\* computeSecondDerivativeAzimuthAngleWrtTime
SecondDerivativeAzimuthAngleWrtTime(shape) ==
    LET firstDerivativeAzimuthAngle == FirstDerivativeAzimuthAngleWrtTime(shape)
        scalarFunctionTimeEquation == ScalarFunctionTimeEquation(shape)
        derivativeScalarFunctionTimeEquation ==
            DerivativeScalarFunctionTimeEquation(shape)
        radialDistance == shape.radial[0]
        firstDerivativeRadialDistance == shape.radial[1]
    IN Times(Minus(0, Squared(firstDerivativeAzimuthAngle)),
             Plus(Divide(derivativeScalarFunctionTimeEquation,
                         Times(2, scalarFunctionTimeEquation)),
                  Divide(firstDerivativeRadialDistance, radialDistance)))

\* computePositionVectorInSphericalCoordinates
PositionVectorInSphericalCoordinates(shape) ==
    <<shape.radial[0], shape.azimuth,
      shape.elevation[0]>>

\* computeCurrentVelocityParametrizedByAzimuthAngle
CurrentVelocityParametrizedByAzimuthAngle(shape) ==
    LET radialDistance == shape.radial[0]
        derivativeRadialDistance == shape.radial[1]
        elevationAngle == shape.elevation[0]
        derivativeElevationAngle == shape.elevation[1]
    IN <<derivativeRadialDistance,
         Times(radialDistance, TrigCos(elevationAngle)),
         Times(radialDistance, derivativeElevationAngle)>>

\* computeVelocityVectorInSphericalCoordinates
VelocityVectorInSphericalCoordinates(shape) ==
    Scaled(FirstDerivativeAzimuthAngleWrtTime(shape),
           CurrentVelocityParametrizedByAzimuthAngle(shape))

\* computeCurrentAccelerationParametrizedByAzimuthAngle
CurrentAccelerationParametrizedByAzimuthAngle(shape) ==
    LET radialDistance == shape.radial[0]
        firstDerivativeRadialDistance == shape.radial[1]
        secondDerivativeRadialDistance == shape.radial[2]
        elevationAngle == shape.elevation[0]
        firstDerivativeElevationAngle == shape.elevation[1]
        secondDerivativeElevationAngle == shape.elevation[2]
    IN <<Minus(secondDerivativeRadialDistance,
               Times(radialDistance, Plus(Squared(firstDerivativeElevationAngle),
                                          Squared(TrigCos(elevationAngle))))),
         Minus(Times(2, Times(firstDerivativeRadialDistance, TrigCos(elevationAngle))),
               Times(2, Times(radialDistance,
                              Times(firstDerivativeElevationAngle, TrigSin(elevationAngle))))),
         Plus(Times(2, Times(firstDerivativeRadialDistance, firstDerivativeElevationAngle)),
              Times(radialDistance,
                    Plus(secondDerivativeElevationAngle,
                         Times(TrigSin(elevationAngle), TrigCos(elevationAngle)))))>>

\* computeThrustAccelerationInSphericalCoordinates
ThrustAccelerationInSphericalCoordinates(shape) ==
    LET radialDistance == shape.radial[0]
        firstDerivativeAzimuthAngleWrtTime ==
            FirstDerivativeAzimuthAngleWrtTime(shape)
        secondDerivativeAzimuthAngleWrtTime ==
            SecondDerivativeAzimuthAngleWrtTime(shape)
        velocityParametrizedByAzimuthAngle ==
            CurrentVelocityParametrizedByAzimuthAngle(shape)
        accelerationParametrizedByAzimuthAngle ==
            CurrentAccelerationParametrizedByAzimuthAngle(shape)
    IN VectorSum(VectorSum(Scaled(Squared(firstDerivativeAzimuthAngleWrtTime),
                                  accelerationParametrizedByAzimuthAngle),
                           Scaled(secondDerivativeAzimuthAngleWrtTime,
                                  velocityParametrizedByAzimuthAngle)),
                 Scaled(Divide(centralBodyGravitationalParameter_,
                               Times(radialDistance, Squared(radialDistance))),
                        <<radialDistance, 0, 0>>))

\* coordinate_conversions::convertSphericalToCartesianState
ConvertSphericalToCartesianState(position, velocity) ==
    LET r == position[1]
        cosAz == TrigCos(position[2])
        sinAz == TrigSin(position[2])
        cosEl == TrigCos(position[3])
        sinEl == TrigSin(position[3])
    IN <<Times(r, Times(cosEl, cosAz)),
         Times(r, Times(cosEl, sinAz)),
         Times(r, sinEl),
         Minus(Minus(Times(velocity[1], Times(cosEl, cosAz)), Times(velocity[2], sinAz)),
               Times(velocity[3], Times(sinEl, cosAz))),
         Minus(Plus(Times(velocity[1], Times(cosEl, sinAz)), Times(velocity[2], cosAz)),
               Times(velocity[3], Times(sinEl, sinAz))),
         Plus(Times(velocity[1], sinEl), Times(velocity[3], cosEl))>>

\* computeNormalizedStateVector
NormalizedStateVector(shape) ==
    ConvertSphericalToCartesianState(
        PositionVectorInSphericalCoordinates(shape),
        VelocityVectorInSphericalCoordinates(shape))

\* computeCurrentStateVector: the normalised state vector made dimensional
DimensionalStateVector(normalizedStateVector) ==
    [i \in 1 .. 6 |->
        IF i <= 3 THEN Times(normalizedStateVector[i], ASTRONOMICAL_UNIT)
        ELSE Divide(Times(normalizedStateVector[i], ASTRONOMICAL_UNIT), JULIAN_YEAR)]

CurrentStateVector(shape) == DimensionalStateVector(NormalizedStateVector(shape))

\* computeNormalizedThrustAccelerationVector
NormalizedThrustAccelerationVector(shape) ==
    SubSeq(ConvertSphericalToCartesianState(
               PositionVectorInSphericalCoordinates(shape),
               ThrustAccelerationInSphericalCoordinates(shape)),
           4, 6)

\* computeCurrentThrustAccelerationMagnitude
CurrentThrustAccelerationMagnitude(shape) ==
    Divide(Times(Norm(NormalizedThrustAccelerationVector(shape)),
                 ASTRONOMICAL_UNIT),
           Squared(JULIAN_YEAR))

\* computeDeltaV: the lambda derivativeFunctionDeltaV
DerivativeFunctionDeltaV(shape) ==
    [throws |-> FALSE,
     value |-> Times(Norm(ThrustAccelerationInSphericalCoordinates(shape)),
                     Sqrt(Divide(Times(ScalarFunctionTimeEquation(shape),
                                       Squared(shape.radial[0])),
                                 centralBodyGravitationalParameter_)))]

\* computeDeltaV: the quadrature's result made dimensional
DimensionalDeltaV(integral) ==
    [throws |-> integral.throws,
     value |-> Divide(Times(integral.value, ASTRONOMICAL_UNIT), JULIAN_YEAR)]

DeltaV(rc, ec, lowerBound) ==
    DimensionalDeltaV(
        GetQuadrature([t \in QuadratureNodes(lowerBound, finalAzimuthAngle_) |->
                          DerivativeFunctionDeltaV(CompositeFunctionsAt(rc, ec, t))],
                      lowerBound, finalAzimuthAngle_))

\* ------------------------------------------------------------------------
\* Queries on the constructed object
\* ------------------------------------------------------------------------
QueryAngles == 0 .. MaxQueryAngle

\* times handed to convertTimeToIndependentVariable, in seconds
QueryTimes == {k * (JULIAN_YEAR \div 2) : k \in 0 .. MaxQueryTime}

queryFrame == <<inputVars, coefficientVars, initialValueFreeCoefficient_, quadratureSettings_,
                travelledAzimuthAngle_, requiredGamma_, interpolator_, pc, iterations, trials,
                evaluationTrace, updatedFreeCoefficient, thrown, exception>>

\* a member function is called on a constructed object; the model follows the
\* calls of one member function with one argument per constructed object, so
\* that a call can be made again after it has answered
Callable(operation, argument) ==
    /\ pc = "constructed"
    /\ \/ queryResult.operation = NoQuery.operation
       \/ queryResult.operation = operation /\ queryResult.argument = argument

\* what a call gives back: a throw, or the components of the returned value
Returned(value) == [throws |-> FALSE, value |-> value]

Scalar(result) == [throws |-> result.throws, value |-> <<result.value>>]

Answer(operation, argument, result) ==
    [operation |-> operation, argument |-> argument,
     throws |-> result.throws, value |-> result.value]

\* computeTimeOfFlight( ): the normalised time of flight made dimensional
DimensionalTime(normalized) ==
    [throws |-> normalized.throws, value |-> Times(normalized.value, JULIAN_YEAR)]

ComputeTimeOfFlight ==
    /\ Callable("computeTimeOfFlight", 0)
    /\ queryResult' = Answer("computeTimeOfFlight", 0,
                             Scalar(DimensionalTime(NormalizedTimeOfFlight)))
    /\ UNCHANGED queryFrame

\* computeCurrentTimeFromAzimuthAngle( currentAzimuthAngle )
ComputeCurrentTimeFromAzimuthAngle(currentAzimuthAngle) ==
    /\ Callable("computeCurrentTimeFromAzimuthAngle", currentAzimuthAngle)
    /\ queryResult' = Answer("computeCurrentTimeFromAzimuthAngle", currentAzimuthAngle,
                             Scalar(CurrentTimeFromAzimuthAngle(
                                 radialDistanceCompositeFunction_,
                                 elevationAngleCompositeFunction_,
                                 quadratureSettings_, currentAzimuthAngle)))
    /\ UNCHANGED queryFrame

\* convertIndependentVariableToTime( independentVariable )
ConvertIndependentVariableToTime(independentVariable) ==
    /\ Callable("convertIndependentVariableToTime", independentVariable)
    /\ queryResult' = Answer("convertIndependentVariableToTime", independentVariable,
                             Scalar(TimeIntegral(radialDistanceCompositeFunction_,
                                                 elevationAngleCompositeFunction_,
                                                 quadratureSettings_, independentVariable)))
    /\ UNCHANGED queryFrame

\* computeFirstDerivativeAzimuthAngleWrtTime( currentAzimuthAngle )
ComputeFirstDerivativeAzimuthAngleWrtTime(currentAzimuthAngle) ==
    /\ Callable("computeFirstDerivativeAzimuthAngleWrtTime", currentAzimuthAngle)
    /\ queryResult' = Answer("computeFirstDerivativeAzimuthAngleWrtTime", currentAzimuthAngle,
                             Scalar(Returned(FirstDerivativeAzimuthAngleWrtTime(
                                 CompositeFunctionsAt(radialDistanceCompositeFunction_,
                                                      elevationAngleCompositeFunction_,
                                                      currentAzimuthAngle)))))
    /\ UNCHANGED queryFrame

\* computeCurrentStateVector( currentAzimuthAngle )
ComputeCurrentStateVector(currentAzimuthAngle) ==
    /\ Callable("computeCurrentStateVector", currentAzimuthAngle)
    /\ queryResult' = Answer("computeCurrentStateVector", currentAzimuthAngle,
                             Returned(CurrentStateVector(
                                 CompositeFunctionsAt(radialDistanceCompositeFunction_,
                                                      elevationAngleCompositeFunction_,
                                                      currentAzimuthAngle))))
    /\ UNCHANGED queryFrame

\* computeCurrentThrustAccelerationMagnitude( currentAzimuthAngle )
ComputeCurrentThrustAccelerationMagnitude(currentAzimuthAngle) ==
    /\ Callable("computeCurrentThrustAccelerationMagnitude", currentAzimuthAngle)
    /\ queryResult' = Answer("computeCurrentThrustAccelerationMagnitude", currentAzimuthAngle,
                             Scalar(Returned(CurrentThrustAccelerationMagnitude(
                                 CompositeFunctionsAt(radialDistanceCompositeFunction_,
                                                      elevationAngleCompositeFunction_,
                                                      currentAzimuthAngle)))))
    /\ UNCHANGED queryFrame

\* interpolator_->interpolate( time ): the angle stored under the time when it
\* is a key of the table, between the angles of the neighbouring keys otherwise,
\* and the angle of the nearest key outside the table
Interpolate(table, time) ==
    LET keys == DOMAIN table
        below == {key \in keys : key <= time}
        above == {key \in keys : key >= time}
        Highest(set) == CHOOSE key \in set : \A other \in set : other <= key
        Lowest(set) == CHOOSE key \in set : \A other \in set : other >= key
    IN IF keys = {} \/ IsNaN(time) THEN NaN
       ELSE IF time \in keys THEN table[time]
       ELSE IF below = {} THEN table[Lowest(keys)]
       ELSE IF above = {} THEN table[Highest(keys)]
       ELSE table[Highest(below)]
                + ((time - Highest(below)) * (table[Lowest(above)] - table[Highest(below)]))
                      \div (Lowest(above) - Highest(below))

\* convertTimeToIndependentVariable( time )
ConvertTimeToIndependentVariable(time) ==
    /\ Callable("convertTimeToIndependentVariable", time)
    /\ queryResult' = Answer("convertTimeToIndependentVariable", time,
                             Scalar(Returned(Interpolate(interpolator_, time))))
    /\ UNCHANGED queryFrame

\* computeDeltaV( ) as it would be if it moved the quadrature's lower bound the
\* way the constructor does before the exponential-sinusoid root-finding
ComputeDeltaVMovingQuadratureBound ==
    /\ Callable("computeDeltaV", 0)
    /\ queryResult' = Answer("computeDeltaV", 0,
                             Scalar(DeltaV(radialDistanceCompositeFunction_,
                                           elevationAngleCompositeFunction_,
                                           quadratureSettings_)))
    /\ quadratureSettings_' = 0
    /\ UNCHANGED <<inputVars, coefficientVars, initialValueFreeCoefficient_,
                   travelledAzimuthAngle_, requiredGamma_, interpolator_, pc, iterations,
                   trials, evaluationTrace, updatedFreeCoefficient, thrown, exception>>

\* computeDeltaV( )
ComputeDeltaV ==
    /\ Callable("computeDeltaV", 0)
    /\ queryResult' = Answer("computeDeltaV", 0,
                             Scalar(DeltaV(radialDistanceCompositeFunction_,
                                           elevationAngleCompositeFunction_,
                                           quadratureSettings_)))
    /\ UNCHANGED queryFrame

\* the values computeShapedTrajectoryAndFullPropagation writes, in order, into
\* the IntegratorSettings object it is handed
IntegratorSettingsWrites(settings, isMassPropagated, halvedTimeOfFlight) ==
    (IF isMassPropagated THEN <<[settings EXCEPT !.initialTime_ = 0]>> ELSE <<>>)
    \o <<[settings EXCEPT !.initialTime_ = halvedTimeOfFlight],
         [initialTimeStep_ |-> Minus(0, settings.initialTimeStep_),
          initialTime_ |-> halvedTimeOfFlight],
         [initialTimeStep_ |-> settings.initialTimeStep_,
          initialTime_ |-> halvedTimeOfFlight]>>

\* half of the time of flight in seconds (the product is taken first, so that
\* the half of an odd number of years is kept)
HalvedTimeOfFlight(timeOfFlight) == Divide(Times(timeOfFlight, JULIAN_YEAR), 2)

\* what computeShapedTrajectoryAndFullPropagation computes before it propagates:
\* its own table, and the azimuth angle at half of the time of flight
ShapedTrajectoryAtHalvedTimeOfFlight ==
    LET dataToInterpolate == DataToInterpolate(radialDistanceCompositeFunction_,
                                               elevationAngleCompositeFunction_,
                                               quadratureSettings_,
                                               integratorSettings.initialTimeStep_)
        timeOfFlight == NormalizedTimeOfFlight
    IN IF dataToInterpolate.throws \/ timeOfFlight.throws
       THEN [throws |-> TRUE, table |-> <<>>, value |-> NaN]
       ELSE [throws |-> FALSE, table |-> dataToInterpolate.table,
             value |-> Interpolate(dataToInterpolate.table,
                                   HalvedTimeOfFlight(timeOfFlight.value))]

MassPropagated(isMassPropagated) == IF isMassPropagated THEN 1 ELSE 0

\* computeShapedTrajectoryAndFullPropagation( ..., integratorSettings, ...,
\* isMassPropagated ), handed the IntegratorSettings object the constructor was
\* handed: the table is a local of the call, the object is left as it is, and
\* the IntegratorSettings object holds what was written into it last
ComputeShapedTrajectoryAndFullPropagation(isMassPropagated) ==
    /\ Callable("computeShapedTrajectoryAndFullPropagation", MassPropagated(isMassPropagated))
    /\ LET shaped == ShapedTrajectoryAtHalvedTimeOfFlight
           writes == IntegratorSettingsWrites(integratorSettings, isMassPropagated,
                                              HalvedTimeOfFlight(NormalizedTimeOfFlight.value))
       IN /\ queryResult' = Answer("computeShapedTrajectoryAndFullPropagation",
                                   MassPropagated(isMassPropagated), Scalar(shaped))
          /\ integratorSettings' = IF shaped.throws THEN integratorSettings
                                   ELSE writes[Len(writes)]
    /\ UNCHANGED <<initialState, finalState, numberOfRevolutions_, requiredTimeOfFlight_,
                   initialAzimuthAngle_, finalAzimuthAngle_, coefficientVars,
                   initialValueFreeCoefficient_, quadratureSettings_, travelledAzimuthAngle_,
                   requiredGamma_, interpolator_, pc, iterations, trials, evaluationTrace,
                   updatedFreeCoefficient, thrown, exception>>

\* ------------------------------------------------------------------------
\* Specification
\* ------------------------------------------------------------------------
Next ==
    \/ SetUpShapeFunctions
    \/ \E inputValue \in FreeCoefficientValues : EvaluateTimeOfFlightFunction(inputValue)
    \/ \E i \in 1 .. MaxIterations : RootFinderReturns(i)
    \/ RootFinderFails
    \/ \E inputValue \in GammaValues : EvaluateTimeOfFlightFunctionExposins(inputValue)
    \/ \E i \in 1 .. MaxIterations : RootFinderExposinsReturns(i)
    \/ RootFinderExposinsFails
    \/ ComputeTimeOfFlight
    \/ ComputeDeltaV
    \/ \E angle \in QueryAngles :
           \/ ComputeCurrentTimeFromAzimuthAngle(angle)
           \/ ConvertIndependentVariableToTime(angle)
           \/ ComputeFirstDerivativeAzimuthAngleWrtTime(angle)
           \/ ComputeCurrentStateVector(angle)
           \/ ComputeCurrentThrustAccelerationMagnitude(angle)
    \/ \E time \in QueryTimes : ConvertTimeToIndependentVariable(time)
    \/ \E isMassPropagated \in BOOLEAN :
           ComputeShapedTrajectoryAndFullPropagation(isMassPropagated)

Spec == Init /\ [][Next]_vars

\* ------------------------------------------------------------------------
\* Boundary conditions.  satisfyBoundaryConditions is bound by
\* iterateToMatchRequiredTimeOfFlight but no evaluation calls it, so it is
\* followed under a specification of its own, which applies it to the object
\* the constructor has set up.  The boundary states of that specification
\* carry all six spherical coordinates.
\* ------------------------------------------------------------------------
BoundaryStates(radialVelocities) ==
    [radius : {1}, azimuth : AzimuthValues, elevation : {0},
     radialVelocity : radialVelocities, azimuthVelocity : {1}, elevationVelocity : {1}]

\* initialStateSphericalCoordinates_ / finalStateSphericalCoordinates_
StateSphericalCoordinates(state) ==
    [i \in 0 .. 5 |->
        CASE i = 0 -> state.radius
          [] i = 1 -> NormalizedAzimuth(state.azimuth)
          [] i = 2 -> state.elevation
          [] i = 3 -> state.radialVelocity
          [] i = 4 -> state.azimuthVelocity
          [] OTHER -> state.elevationVelocity]

\* initialStateParametrizedByAzimuthAngle_ / finalStateParametrizedByAzimuthAngle_
StateParametrizedByAzimuthAngle(spherical) ==
    LET derivativeAzimuthAngle ==
            Divide(spherical[4], Times(spherical[0], TrigCos(spherical[2])))
    IN [i \in 0 .. 5 |->
           IF i < 3 THEN spherical[i] ELSE Divide(spherical[i], derivativeAzimuthAngle)]

\* computeInitialAlphaValue / computeFinalAlphaValue
ComputeAlphaValue(parametrized) ==
    Divide(Minus(0, Divide(Times(parametrized[3], parametrized[5]), parametrized[0])),
           Plus(Squared(Divide(parametrized[5], parametrized[0])),
                Squared(TrigCos(parametrized[2]))))

\* computeInitialValueBoundariesConstant / computeFinalValueBoundariesConstant
ComputeValueBoundariesConstant(parametrized, spherical) ==
    LET radialDistance == parametrized[0]
        elevationAngle == parametrized[2]
        derivativeRadialDistance == parametrized[3]
        derivativeElevationAngle == Divide(parametrized[5], parametrized[0])
        derivativeOfTimeWrtAzimuthAngle ==
            Divide(Times(parametrized[0], TrigCos(parametrized[2])), spherical[4])
        denominator == Plus(Squared(derivativeElevationAngle), Squared(TrigCos(elevationAngle)))
    IN Minus(Plus(Plus(Divide(Times(Minus(0, centralBodyGravitationalParameter_),
                                    Squared(derivativeOfTimeWrtAzimuthAngle)),
                              Squared(radialDistance)),
                       Divide(Times(2, Squared(derivativeRadialDistance)), radialDistance)),
                  Times(radialDistance, denominator)),
             Divide(Times(Times(derivativeRadialDistance, derivativeElevationAngle),
                          Times(TrigSin(elevationAngle), TrigCos(elevationAngle))),
                    denominator))

\* the radial component function of column i of the matrix: the free
\* coefficient's component, index 2, is skipped
RadialIndexOfColumn(i) == IF i >= 2 THEN i + 1 ELSE i

\* computeInverseMatrixBoundaryConditions: matrixBoundaryConditions, row by row
MatrixBoundaryConditions(initialSpherical, finalSpherical, initialAngle, finalAngle) ==
    LET initialValueAlpha == ComputeAlphaValue(StateParametrizedByAzimuthAngle(initialSpherical))
        finalValueAlpha == ComputeAlphaValue(StateParametrizedByAzimuthAngle(finalSpherical))
        Radial(row, index) ==
            CASE row = 0 -> RadialComponentFunction(index, 0, initialAngle)
              [] row = 1 -> RadialComponentFunction(index, 0, finalAngle)
              [] row = 2 -> RadialComponentFunction(index, 1, initialAngle)
              [] row = 3 -> RadialComponentFunction(index, 1, finalAngle)
              [] row = 4 -> Times(Minus(0, Squared(initialSpherical[0])),
                                  RadialComponentFunction(index, 2, initialAngle))
              [] row = 5 -> Times(Minus(0, Squared(finalSpherical[0])),
                                  RadialComponentFunction(index, 2, finalAngle))
              [] OTHER -> 0
        Elevation(row, index) ==
            CASE row = 4 -> Times(initialValueAlpha,
                                  ElevationComponentFunction(index, 2, initialAngle))
              [] row = 5 -> Times(finalValueAlpha,
                                  ElevationComponentFunction(index, 2, finalAngle))
              [] row = 6 -> ElevationComponentFunction(index, 0, initialAngle)
              [] row = 7 -> ElevationComponentFunction(index, 0, finalAngle)
              [] row = 8 -> ElevationComponentFunction(index, 1, initialAngle)
              [] row = 9 -> ElevationComponentFunction(index, 1, finalAngle)
              [] OTHER -> 0
    IN [row \in 0 .. 9 |->
           [column \in 0 .. 9 |->
               IF column < 6 THEN Radial(row, RadialIndexOfColumn(column))
               ELSE Elevation(row, column - 6)]]

\* The determinant of the rows `rows` and the columns from `column` on of a
\* square block of the matrix, expanded along its first column
RECURSIVE Determinant(_, _, _)
RECURSIVE CofactorSum(_, _, _, _)
CofactorSum(matrix, column, rows, candidates) ==
    IF candidates = {} THEN 0
    ELSE LET row == CHOOSE r \in candidates : \A other \in candidates : r <= other
             entry == matrix[row][column]
             sign == IF Cardinality({r \in rows : r < row}) % 2 = 0 THEN 1 ELSE -1
         IN (IF entry = 0 THEN 0
             ELSE sign * entry * Determinant(matrix, column + 1, rows \ {row}))
            + CofactorSum(matrix, column, rows, candidates \ {row})

Determinant(matrix, column, rows) ==
    IF rows = {} THEN 1 ELSE CofactorSum(matrix, column, rows, rows)

\* rows 0..3 and 6..9 of the matrix are zero outside their own block, so its
\* determinant is the product of the one of the radial block (rows and columns
\* 0..5) and the one of the elevation block (rows and columns 6..9)
RadialBlockDeterminant(matrix) == Determinant(matrix, 0, 0 .. 5)

ElevationBlockDeterminant(matrix) == Determinant(matrix, 6, 6 .. 9)

IsSingular(matrix) ==
    RadialBlockDeterminant(matrix) = 0 \/ ElevationBlockDeterminant(matrix) = 0

\* the matrix with one of its columns replaced by a vector
WithColumn(matrix, replaced, vector) ==
    [row \in 0 .. 9 |->
        [column \in 0 .. 9 |->
            IF column = replaced THEN vector[row + 1] ELSE matrix[row][column]]]

\* satisfyBoundaryConditions: vectorBoundaryValues
VectorBoundaryValues(initialSpherical, finalSpherical) ==
    LET initial == StateParametrizedByAzimuthAngle(initialSpherical)
        final == StateParametrizedByAzimuthAngle(finalSpherical)
    IN <<Divide(1, initial[0]),
         Divide(1, final[0]),
         Divide(Minus(0, initial[3]), Squared(initial[0])),
         Divide(Minus(0, final[3]), Squared(final[0])),
         Minus(ComputeValueBoundariesConstant(initial, initialSpherical),
               Divide(Times(2, Squared(initial[3])), initial[0])),
         Minus(ComputeValueBoundariesConstant(final, finalSpherical),
               Divide(Times(2, Squared(final[3])), final[0])),
         initial[2],
         final[2],
         Divide(initial[5], initial[0]),
         Divide(final[5], final[0])>>

\* satisfyBoundaryConditions: vectorSecondComponentContribution, times the free
\* coefficient
VectorSecondComponentContribution(initialSpherical, finalSpherical, initialAngle, finalAngle, freeCoefficient) ==
    LET contribution ==
            <<RadialComponentFunction(2, 0, initialAngle),
              RadialComponentFunction(2, 0, finalAngle),
              RadialComponentFunction(2, 1, initialAngle),
              RadialComponentFunction(2, 1, finalAngle),
              Times(Minus(0, Squared(initialSpherical[0])),
                    RadialComponentFunction(2, 2, initialAngle)),
              Times(Minus(0, Squared(finalSpherical[0])),
                    RadialComponentFunction(2, 2, finalAngle)),
              0, 0, 0, 0>>
    IN [i \in 1 .. 10 |-> Times(contribution[i], freeCoefficient)]

\* what Eigen leaves in the entries of the inverse of a matrix that has none:
\* inverse( ) tests nothing and throws nothing, its result is not defined
UndefinedValues == {NaN, 0}

\* matrixBoundaryConditions.inverse( ) * vector.  For an invertible matrix it is
\* the solution of the linear system, here by Cramer's rule on the two blocks:
\* elevationNumerators[i] / elevationDeterminant are the elevation coefficients,
\* and the radial ones solve the radial block for the boundary values less the
\* elevation coefficients' share of rows 4 and 5.
InverseTimes(matrix, vector, radialDeterminant, elevationDeterminant) ==
    IF radialDeterminant = 0 \/ elevationDeterminant = 0
    THEN {[i \in 0 .. 9 |-> value] : value \in UndefinedValues}
    ELSE LET ElevationNumerator(i) ==
                 Determinant(WithColumn(matrix, i + 6, vector), 6, 6 .. 9)
             elevationNumerators == <<ElevationNumerator(0), ElevationNumerator(1),
                                      ElevationNumerator(2), ElevationNumerator(3)>>
             Share(row) ==
                 IF row < 4 THEN 0
                 ELSE Plus(Plus(Times(matrix[row][6], elevationNumerators[1]),
                                Times(matrix[row][7], elevationNumerators[2])),
                           Plus(Times(matrix[row][8], elevationNumerators[3]),
                                Times(matrix[row][9], elevationNumerators[4])))
             ScaledByDeterminant(row) ==
                 Minus(Times(elevationDeterminant, vector[row + 1]), Share(row))
             scaledVector == <<ScaledByDeterminant(0), ScaledByDeterminant(1),
                               ScaledByDeterminant(2), ScaledByDeterminant(3),
                               ScaledByDeterminant(4), ScaledByDeterminant(5), 0, 0, 0, 0>>
             RadialNumerator(i) ==
                 IF \E row \in 1 .. 6 : IsNaN(scaledVector[row]) THEN NaN
                 ELSE Determinant(WithColumn(matrix, i, scaledVector), 0, 0 .. 5)
         IN {[i \in 0 .. 9 |->
                 IF i < 6
                 THEN Divide(RadialNumerator(i), radialDeterminant * elevationDeterminant)
                 ELSE Divide(elevationNumerators[i - 5], elevationDeterminant)]}

\* the coefficient vectors satisfyBoundaryConditions can leave: the radial one
\* (the free coefficient at index 2) and the elevation one
CompositeFunctionCoefficients(initialSpherical, finalSpherical, initialAngle, finalAngle, freeCoefficient) ==
    LET matrix == MatrixBoundaryConditions(initialSpherical, finalSpherical,
                                           initialAngle, finalAngle)
        boundaryValues == VectorBoundaryValues(initialSpherical, finalSpherical)
        contribution == VectorSecondComponentContribution(initialSpherical, finalSpherical,
                                                          initialAngle, finalAngle,
                                                          freeCoefficient)
    IN InverseTimes(matrix,
                    <<Minus(boundaryValues[1], contribution[1]),
                      Minus(boundaryValues[2], contribution[2]),
                      Minus(boundaryValues[3], contribution[3]),
                      Minus(boundaryValues[4], contribution[4]),
                      Minus(boundaryValues[5], contribution[5]),
                      Minus(boundaryValues[6], contribution[6]),
                      Minus(boundaryValues[7], contribution[7]),
                      Minus(boundaryValues[8], contribution[8]),
                      Minus(boundaryValues[9], contribution[9]),
                      Minus(boundaryValues[10], contribution[10])>>,
                    RadialBlockDeterminant(matrix), ElevationBlockDeterminant(matrix))

\* satisfyBoundaryConditions( ) as it would be if the writing loop did not skip
\* the free coefficient's place: solved entry i goes to radial coefficient i, the
\* free coefficient then replaces coefficient 2, coefficient 6 keeps its value
SatisfyBoundaryConditionsStoringUnshifted ==
    /\ pc = "iterateToMatchRequiredTimeOfFlight"
    /\ \E compositeFunctionCoefficients \in
              CompositeFunctionCoefficients(StateSphericalCoordinates(initialState),
                                            StateSphericalCoordinates(finalState),
                                            initialAzimuthAngle_, finalAzimuthAngle_,
                                            initialValueFreeCoefficient_) :
           LET radial == [i \in 0 .. 6 |->
                             IF i = 2 THEN initialValueFreeCoefficient_
                             ELSE IF i < 6 THEN compositeFunctionCoefficients[i]
                             ELSE coefficientsRadialDistanceFunction_[i]]
               elevation == [i \in 0 .. 3 |-> compositeFunctionCoefficients[i + 6]]
           IN /\ coefficientsRadialDistanceFunction_' = radial
              /\ coefficientsElevationAngleFunction_' = elevation
              /\ radialDistanceCompositeFunction_' = radial
              /\ elevationAngleCompositeFunction_' = elevation
    /\ evaluationTrace' = <<"satisfyBoundaryConditions">>
    /\ UNCHANGED <<inputVars, initialValueFreeCoefficient_, quadratureSettings_,
                   travelledAzimuthAngle_, requiredGamma_, interpolator_, pc, iterations,
                   trials, updatedFreeCoefficient, thrown, exception, queryResult>>

\* satisfyBoundaryConditions( ): the coefficients are written and both composite
\* functions are reset with them; nothing is tested and nothing is thrown
SatisfyBoundaryConditions ==
    /\ pc = "iterateToMatchRequiredTimeOfFlight"
    /\ \E compositeFunctionCoefficients \in
              CompositeFunctionCoefficients(StateSphericalCoordinates(initialState),
                                            StateSphericalCoordinates(finalState),
                                            initialAzimuthAngle_, finalAzimuthAngle_,
                                            initialValueFreeCoefficient_) :
           LET radial == [i \in 0 .. 6 |->
                             IF i = 2 THEN initialValueFreeCoefficient_
                             ELSE IF i < 2 THEN compositeFunctionCoefficients[i]
                             ELSE compositeFunctionCoefficients[i - 1]]
               elevation == [i \in 0 .. 3 |-> compositeFunctionCoefficients[i + 6]]
           IN /\ coefficientsRadialDistanceFunction_' = radial
              /\ coefficientsElevationAngleFunction_' = elevation
              /\ radialDistanceCompositeFunction_' = radial
              /\ elevationAngleCompositeFunction_' = elevation
    /\ evaluationTrace' = <<"satisfyBoundaryConditions">>
    /\ UNCHANGED <<inputVars, initialValueFreeCoefficient_, quadratureSettings_,
                   travelledAzimuthAngle_, requiredGamma_, interpolator_, pc, iterations,
                   trials, updatedFreeCoefficient, thrown, exception, queryResult>>

\* the object before its constructor's body, for boundary states with all six
\* spherical coordinates
InitBoundaryConditions ==
    /\ initialState \in BoundaryStates({0})
    /\ finalState \in BoundaryStates({0, 1})
    /\ numberOfRevolutions_ \in 0 .. MaxRevolutions
    /\ requiredTimeOfFlight_ = 1
    /\ integratorSettings \in [initialTimeStep_ : StepSizes, initialTime_ : {0}]
    /\ initialValueFreeCoefficient_ \in FreeCoefficientValues
    /\ initialAzimuthAngle_ = NaN
    /\ finalAzimuthAngle_ = NaN
    /\ coefficientsRadialDistanceFunction_ = Unset(7)
    /\ coefficientsElevationAngleFunction_ = Unset(4)
    /\ radialDistanceCompositeFunction_ = Unset(7)
    /\ elevationAngleCompositeFunction_ = Unset(4)
    /\ quadratureSettings_ = NaN
    /\ travelledAzimuthAngle_ = NaN
    /\ requiredGamma_ = NaN
    /\ interpolator_ = <<>>
    /\ pc = "ExposinsShaping"
    /\ iterations = 0
    /\ trials = <<>>
    /\ evaluationTrace = <<>>
    /\ updatedFreeCoefficient = NaN
    /\ thrown = NoError
    /\ exception = NoError
    /\ queryResult = NoQuery

NextBoundaryConditions ==
    \/ SetUpShapeFunctions
    \/ SatisfyBoundaryConditions

SpecBoundaryConditions == InitBoundaryConditions /\ [][NextBoundaryConditions]_vars

\* ------------------------------------------------------------------------
\* The radial coefficient vector as exposinsShaping.h declares it.  The
\* specifications above follow the .cpp, which resizes the member to 7 entries
\* as if it were a dynamic vector; the header declares it Eigen::Vector4d, a
\* vector of fixed size.  This specification follows the declaration through
\* the constructor's initialisation of the coefficients.
\* ------------------------------------------------------------------------
\* Eigen::Vector4d: the number of entries
Vector4d == 4

\* eigen_assert is compiled in a debug build and compiled out in a release one
Builds == {"debug", "release"}

\* vector.resize( size ) on a vector of fixed size: a size other than its own
\* fails eigen_assert in a debug build and leaves the vector as it is in a
\* release build
ResizeFixedSize(vector, size, build) ==
    IF size = Cardinality(DOMAIN vector) THEN [failed |-> FALSE, vector |-> vector]
    ELSE [failed |-> build = "debug", vector |-> vector]

\* vector[ i ] = value on a vector of fixed size: an index outside it fails
\* eigen_assert in a debug build and writes outside the vector in a release
\* build, the vector's own entries staying as they are
RECURSIVE WriteEntries(_, _, _, _)
WriteEntries(vector, count, value, build) ==
    IF count = 0 THEN [failed |-> FALSE, vector |-> vector]
    ELSE LET before == WriteEntries(vector, count - 1, value, build)
             i == count - 1
         IN IF before.failed THEN before
            ELSE IF i \in DOMAIN vector
                 THEN [failed |-> FALSE, vector |-> [before.vector EXCEPT ![i] = value]]
                 ELSE [failed |-> build = "debug", vector |-> before.vector]

\* the constructor's initialisation of a coefficient vector: resize, then the
\* loop that sets every entry to 1.0
InitialiseCoefficients(vector, size, build) ==
    LET resized == ResizeFixedSize(vector, size, build)
    IN IF resized.failed THEN resized
       ELSE WriteEntries(resized.vector, size, 1, build)

\* the constructor's body up to its call of iterateToMatchRequiredTimeOfFlight,
\* with the radial coefficient vector of the declared type
SetUpShapeFunctionsAsDeclared(build) ==
    /\ pc = "ExposinsShaping"
    /\ initialAzimuthAngle_' = NormalizedAzimuth(initialState.azimuth)
    /\ finalAzimuthAngle_' = FinalAzimuthAngle(NormalizedAzimuth(initialState.azimuth),
                                               NormalizedAzimuth(finalState.azimuth),
                                               numberOfRevolutions_)
    /\ LET radial == InitialiseCoefficients(coefficientsRadialDistanceFunction_, 7, build)
       IN /\ coefficientsRadialDistanceFunction_' = radial.vector
          /\ IF radial.failed
             THEN /\ pc' = "aborted"
                  /\ UNCHANGED <<coefficientsElevationAngleFunction_,
                                 radialDistanceCompositeFunction_,
                                 elevationAngleCompositeFunction_, quadratureSettings_>>
             ELSE /\ coefficientsElevationAngleFunction_' = InitialCoefficients(4)
                  /\ radialDistanceCompositeFunction_' = radial.vector
                  /\ elevationAngleCompositeFunction_' = InitialCoefficients(4)
                  /\ quadratureSettings_' = NormalizedAzimuth(initialState.azimuth)
                  /\ pc' = "iterateToMatchRequiredTimeOfFlight"
    /\ UNCHANGED <<initialState, finalState, numberOfRevolutions_, requiredTimeOfFlight_,
                   integratorSettings, initialValueFreeCoefficient_, travelledAzimuthAngle_,
                   requiredGamma_, interpolator_, iterations, trials, evaluationTrace,
                   updatedFreeCoefficient, thrown, exception, queryResult>>

\* the object before its constructor's body, the radial coefficient vector
\* having the declared size
InitAsDeclared ==
    /\ initialState \in [azimuth : AzimuthValues]
    /\ finalState \in [azimuth : AzimuthValues]
    /\ numberOfRevolutions_ \in 0 .. MaxRevolutions
    /\ requiredTimeOfFlight_ \in 0 .. MaxRequiredTimeOfFlight
    /\ integratorSettings \in [initialTimeStep_ : StepSizes, initialTime_ : {0}]
    /\ initialValueFreeCoefficient_ \in FreeCoefficientValues
    /\ initialAzimuthAngle_ = NaN
    /\ finalAzimuthAngle_ = NaN
    /\ coefficientsRadialDistanceFunction_ = Unset(Vector4d)
    /\ coefficientsElevationAngleFunction_ = Unset(4)
    /\ radialDistanceCompositeFunction_ = Unset(7)
    /\ elevationAngleCompositeFunction_ = Unset(4)
    /\ quadratureSettings_ = NaN
    /\ travelledAzimuthAngle_ = NaN
    /\ requiredGamma_ = NaN
    /\ interpolator_ = <<>>
    /\ pc = "ExposinsShaping"
    /\ iterations = 0
    /\ trials = <<>>
    /\ evaluationTrace = <<>>
    /\ updatedFreeCoefficient = NaN
    /\ thrown = NoError
    /\ exception = NoError
    /\ queryResult = NoQuery

NextAsDeclared == \E build \in Builds : SetUpShapeFunctionsAsDeclared(build)

SpecAsDeclared == InitAsDeclared /\ [][NextAsDeclared]_vars

\* ------------------------------------------------------------------------
\* Two instances, each driven by a thread of its own, handed the same
\* IntegratorSettings object.  In this specification the members and the
\* position are kept per thread (functions of the thread), integratorSettings is
\* the one shared object, and a step is one access to it.  The root-findings
\* of both constructors have returned; the constructors go on at line 232.
\* ------------------------------------------------------------------------
Threads == {1, 2}

NoSettings == [initialTimeStep_ |-> NaN, initialTime_ |-> NaN]

\* what a thread has obtained: the step sizes its constructor and its
\* computeShapedTrajectoryAndFullPropagation read, and the settings its three
\* propagations ran with
NoResults ==
    [isMassPropagated |-> FALSE, constructorStepSize |-> NaN, initialStepSize |-> NaN,
     massPropagation |-> NoSettings, forwardPropagation |-> NoSettings,
     backwardPropagation |-> NoSettings]

\* std::ceil( timeOfFlight * JULIAN_YEAR / initialStepSize ); with a step size
\* that is not positive the quotient is not positive and there is no sample
SampleCount(timeOfFlight, initialStepSize) ==
    IF initialStepSize > 0 THEN Ceil(timeOfFlight * JULIAN_YEAR, initialStepSize) ELSE 0

\* the normalised time of flight of the instance of a thread
TimeOfFlightOf(thread) ==
    TimeIntegral(radialDistanceCompositeFunction_[thread],
                 elevationAngleCompositeFunction_[thread],
                 quadratureSettings_[thread], finalAzimuthAngle_[thread])

\* the table an instance builds for the step size it has read
TableOf(thread, initialStepSize) ==
    EpochsOfAzimuthAngles(radialDistanceCompositeFunction_[thread],
                          elevationAngleCompositeFunction_[thread],
                          quadratureSettings_[thread],
                          LinSpaced(SampleCount(TimeOfFlightOf(thread).value, initialStepSize),
                                    initialAzimuthAngle_[thread],
                                    finalAzimuthAngle_[thread])).table

threadFrame == <<initialState, finalState, numberOfRevolutions_, requiredTimeOfFlight_,
                 initialValueFreeCoefficient_, initialAzimuthAngle_, finalAzimuthAngle_,
                 coefficientVars, quadratureSettings_, travelledAzimuthAngle_, requiredGamma_,
                 iterations, trials, evaluationTrace, updatedFreeCoefficient, thrown,
                 exception>>

\* constructor, lines 232-251: the step size is read from the shared object, the
\* table is built for it
ConstructorBuildsTable(thread) ==
    /\ pc[thread] = "ExposinsShaping"
    /\ interpolator_' = [interpolator_ EXCEPT
                            ![thread] = TableOf(thread, integratorSettings.initialTimeStep_)]
    /\ queryResult' = [queryResult EXCEPT
                          ![thread].constructorStepSize = integratorSettings.initialTimeStep_]
    /\ pc' = [pc EXCEPT ![thread] = "constructed"]
    /\ UNCHANGED <<threadFrame, integratorSettings>>

\* computeShapedTrajectoryAndFullPropagation, lines 1064-1090: the step size is
\* read from the shared object
RetrieveInitialStepSize(thread, isMassPropagated) ==
    /\ pc[thread] = "constructed"
    /\ queryResult' = [queryResult EXCEPT
                          ![thread].isMassPropagated = isMassPropagated,
                          ![thread].initialStepSize = integratorSettings.initialTimeStep_]
    /\ pc' = [pc EXCEPT ![thread] = IF isMassPropagated THEN "massInitialTime"
                                    ELSE "forwardInitialTime"]
    /\ UNCHANGED <<threadFrame, integratorSettings, interpolator_>>

\* line 1147: integratorSettings->initialTime_ = 0.0
SetInitialTimeOfMassPropagation(thread) ==
    /\ pc[thread] = "massInitialTime"
    /\ integratorSettings' = [integratorSettings EXCEPT !.initialTime_ = 0]
    /\ pc' = [pc EXCEPT ![thread] = "massPropagation"]
    /\ UNCHANGED <<threadFrame, interpolator_, queryResult>>

\* lines 1150-1154: the mass is propagated with the settings the object holds
PropagateMass(thread) ==
    /\ pc[thread] = "massPropagation"
    /\ queryResult' = [queryResult EXCEPT ![thread].massPropagation = integratorSettings]
    /\ pc' = [pc EXCEPT ![thread] = "forwardInitialTime"]
    /\ UNCHANGED <<threadFrame, integratorSettings, interpolator_>>

\* line 1208: integratorSettings->initialTime_ = halvedTimeOfFlight * JULIAN_YEAR
SetInitialTimeOfForwardPropagation(thread) ==
    /\ pc[thread] = "forwardInitialTime"
    /\ integratorSettings' =
           [integratorSettings EXCEPT
               !.initialTime_ = HalvedTimeOfFlight(TimeOfFlightOf(thread).value)]
    /\ pc' = [pc EXCEPT ![thread] = "forwardPropagation"]
    /\ UNCHANGED <<threadFrame, interpolator_, queryResult>>

\* lines 1227-1229: the forward propagation
PropagateForwards(thread) ==
    /\ pc[thread] = "forwardPropagation"
    /\ queryResult' = [queryResult EXCEPT ![thread].forwardPropagation = integratorSettings]
    /\ pc' = [pc EXCEPT ![thread] = "backwardInitialTimeStep"]
    /\ UNCHANGED <<threadFrame, integratorSettings, interpolator_>>

\* line 1248: integratorSettings->initialTimeStep_ = - integratorSettings->initialTimeStep_
NegateInitialTimeStep(thread) ==
    /\ pc[thread] = "backwardInitialTimeStep"
    /\ integratorSettings' =
           [integratorSettings EXCEPT
               !.initialTimeStep_ = Minus(0, integratorSettings.initialTimeStep_)]
    /\ pc' = [pc EXCEPT ![thread] = "backwardInitialTime"]
    /\ UNCHANGED <<threadFrame, interpolator_, queryResult>>

\* line 1249: integratorSettings->initialTime_ = halvedTimeOfFlight * JULIAN_YEAR
SetInitialTimeOfBackwardPropagation(thread) ==
    /\ pc[thread] = "backwardInitialTime"
    /\ integratorSettings' =
           [integratorSettings EXCEPT
               !.initialTime_ = HalvedTimeOfFlight(TimeOfFlightOf(thread).value)]
    /\ pc' = [pc EXCEPT ![thread] = "backwardPropagation"]
    /\ UNCHANGED <<threadFrame, interpolator_, queryResult>>

\* lines 1252-1254: the backward propagation
PropagateBackwards(thread) ==
    /\ pc[thread] = "backwardPropagation"
    /\ queryResult' = [queryResult EXCEPT ![thread].backwardPropagation = integratorSettings]
    /\ pc' = [pc EXCEPT ![thread] = "resetInitialTimeStep"]
    /\ UNCHANGED <<threadFrame, integratorSettings, interpolator_>>

\* line 1272: the step size is negated back
ResetInitialTimeStep(thread) ==
    /\ pc[thread] = "resetInitialTimeStep"
    /\ integratorSettings' =
           [integratorSettings EXCEPT
               !.initialTimeStep_ = Minus(0, integratorSettings.initialTimeStep_)]
    /\ pc' = [pc EXCEPT ![thread] = "done"]
    /\ UNCHANGED <<threadFrame, interpolator_, queryResult>>

\* two instances whose root-findings have returned, with the constructor's
\* all-1.0 coefficients, from the initial azimuth angle 3 PI/2 to 2 PI or 5 PI/2
InitTwoThreads ==
    /\ initialState = [azimuth |-> -1]
    /\ finalState = [azimuth |-> 0]
    /\ numberOfRevolutions_ = 0
    /\ requiredTimeOfFlight_ = NaN
    /\ integratorSettings \in [initialTimeStep_ : StepSizes, initialTime_ : {0}]
    /\ initialValueFreeCoefficient_ = 1
    /\ initialAzimuthAngle_ = [thread \in Threads |-> NormalizedAzimuth(initialState.azimuth)]
    /\ finalAzimuthAngle_ \in
           [Threads -> {FinalAzimuthAngle(NormalizedAzimuth(initialState.azimuth),
                                          NormalizedAzimuth(azimuth), numberOfRevolutions_) :
                            azimuth \in {0, 1}}]
    /\ coefficientsRadialDistanceFunction_ = [thread \in Threads |-> InitialCoefficients(7)]
    /\ coefficientsElevationAngleFunction_ = [thread \in Threads |-> InitialCoefficients(4)]
    /\ radialDistanceCompositeFunction_ = [thread \in Threads |-> InitialCoefficients(7)]
    /\ elevationAngleCompositeFunction_ = [thread \in Threads |-> InitialCoefficients(4)]
    /\ quadratureSettings_ = initialAzimuthAngle_
    /\ travelledAzimuthAngle_ = NaN
    /\ requiredGamma_ = NaN
    /\ interpolator_ = [thread \in Threads |-> <<>>]
    /\ pc = [thread \in Threads |-> "ExposinsShaping"]
    /\ iterations = 0
    /\ trials = <<>>
    /\ evaluationTrace = <<>>
    /\ updatedFreeCoefficient = NaN
    /\ thrown = NoError
    /\ exception = NoError
    /\ queryResult = [thread \in Threads |-> NoResults]

NextTwoThreads ==
    \E thread \in Threads :
        \/ ConstructorBuildsTable(thread)
        \/ \E isMassPropagated \in BOOLEAN : RetrieveInitialStepSize(thread, isMassPropagated)
        \/ SetInitialTimeOfMassPropagation(thread)
        \/ PropagateMass(thread)
        \/ SetInitialTimeOfForwardPropagation(thread)
        \/ PropagateForwards(thread)
        \/ NegateInitialTimeStep(thread)
        \/ SetInitialTimeOfBackwardPropagation(thread)
        \/ PropagateBackwards(thread)
        \/ ResetInitialTimeStep(thread)

SpecTwoThreads == InitTwoThreads /\ [][NextTwoThreads]_vars

\* ------------------------------------------------------------------------
\* The member infeasibleTOF_.  The class declares it and returns it from
\* getInfeasibleTOF; the constructor's initialiser list does not name it and no
\* statement assigns it, so what the getter reads was never written.
\* ------------------------------------------------------------------------
\* the values a read of a bool that was never written can give
IndeterminateBool == BOOLEAN

\* getInfeasibleTOF( ): return infeasibleTOF_
GetInfeasibleTOF ==
    /\ Callable("getInfeasibleTOF", 0)
    /\ \E infeasibleTOF_ \in IndeterminateBool :
           queryResult' = Answer("getInfeasibleTOF", 0, Scalar(Returned(infeasibleTOF_)))
    /\ UNCHANGED queryFrame

NextInfeasibleTOF ==
    \/ SetUpShapeFunctions
    \/ \E inputValue \in FreeCoefficientValues : EvaluateTimeOfFlightFunction(inputValue)
    \/ \E i \in 1 .. MaxIterations : RootFinderReturns(i)
    \/ RootFinderFails
    \/ \E inputValue \in GammaValues : EvaluateTimeOfFlightFunctionExposins(inputValue)
    \/ \E i \in 1 .. MaxIterations : RootFinderExposinsReturns(i)
    \/ RootFinderExposinsFails
    \/ GetInfeasibleTOF

SpecInfeasibleTOF == Init /\ [][NextInfeasibleTOF]_vars

\* ------------------------------------------------------------------------
\* computeShapedTrajectoryAndFullPropagation, statement by statement, on a
\* constructed object.  In this specification queryResult holds what the call
\* is handed and what it has computed: the three result maps of the caller,
\* the call's own table, the state at half of the time of flight, and the
\* propagations run so far, each with the integrator settings it was made
\* with.  A propagation is the work of a SingleArcDynamicsSimulator: it gives a
\* state history, one entry per epoch from the initial time on in steps of the
\* initial time step, or it raises an error.
\* ------------------------------------------------------------------------
MaxPropagationSteps == 2

\* bodyMap_[ bodyToPropagate ]->getBodyMass( )
BodyMass == 10

EmptyMap == [epoch \in {} |-> <<>>]

\* what the caller's result maps hold before the call
StaleResults == {EmptyMap, [epoch \in {-1} |-> <<"stale", epoch>>]}

PropagationError == [type |-> "std::runtime_error", what |-> "propagation"]

\* Variant: entries saved the way std::map::insert does, the entry the map holds
\* for an epoch being kept
SaveResultsKeepingEarlier(results, history) ==
    [epoch \in DOMAIN results \union DOMAIN history |->
        IF epoch \in DOMAIN results THEN results[epoch] ELSE history[epoch]]

\* results[ itr->first ] = ... over a history: an entry of the history replaces
\* the entry the map holds for its epoch
SaveResults(results, history) ==
    [epoch \in DOMAIN results \union DOMAIN history |->
        IF epoch \in DOMAIN history THEN history[epoch] ELSE results[epoch]]

\* getEquationsOfMotionNumericalSolution( ) of a leg
StateHistory(simulator, settings, steps) ==
    [epoch \in {settings.initialTime_ + k * settings.initialTimeStep_ : k \in 0 .. steps} |->
        <<simulator, epoch>>]

\* getDependentVariableHistory( ) of a leg: the epochs of its state history
\* when dependent variables are saved, no entry otherwise
DependentVariableHistory(stateHistory, dependentVariablesToSave) ==
    IF dependentVariablesToSave THEN stateHistory ELSE EmptyMap

\* dependentVariableHistory[ itr->first ] for the epochs of the state history:
\* operator[] gives an empty vector for an epoch the history does not hold
DependentVariablesAt(stateHistory, dependentVariableHistory) ==
    [epoch \in DOMAIN stateHistory |->
        IF epoch \in DOMAIN dependentVariableHistory THEN dependentVariableHistory[epoch]
        ELSE <<>>]

\* the shaped trajectory at the epochs of a state history, from the call's table
ShapingMethodStates(stateHistory, dataToInterpolate) ==
    [epoch \in DOMAIN stateHistory |->
        CurrentStateVector(CompositeFunctionsAt(radialDistanceCompositeFunction_,
                                                elevationAngleCompositeFunction_,
                                                Interpolate(dataToInterpolate, epoch)))]

\* the mass propagated from the initial time until halvedTimeOfFlight *
\* JULIAN_YEAR, where the propagation terminates exactly
PropagatedMass(settings, finalTime) ==
    LET epochs == {epoch \in {settings.initialTime_ + k * settings.initialTimeStep_ :
                                  k \in 0 .. Ceil(finalTime, settings.initialTimeStep_)} :
                       epoch < finalTime} \union {finalTime}
    IN [epoch \in epochs |-> <<BodyMass - Ceil(epoch, JULIAN_YEAR)>>]

\* propagatedMass.rbegin( )->second[ 0 ]
LastValue(history) ==
    history[CHOOSE epoch \in DOMAIN history : \A other \in DOMAIN history : other <= epoch][1]

Propagation(simulator, settings, state, mass, stateHistory, throws) ==
    [simulator |-> simulator, integratorSettings |-> settings, initialState |-> state,
     initialMass |-> mass, stateHistory |-> stateHistory, throws |-> throws]

propagationFrame == <<initialState, finalState, numberOfRevolutions_, requiredTimeOfFlight_,
                      initialValueFreeCoefficient_, initialAzimuthAngle_, finalAzimuthAngle_,
                      coefficientVars, quadratureSettings_, travelledAzimuthAngle_,
                      requiredGamma_, interpolator_, iterations, trials, evaluationTrace,
                      updatedFreeCoefficient, thrown>>

\* lines 1058-1132: the result maps are cleared, the call's table is built, the
\* state at half of the time of flight is computed
ComputeStateAtHalvedTimeOfFlight(isMassPropagated) ==
    /\ pc = "constructed"
    /\ LET shaped == ShapedTrajectoryAtHalvedTimeOfFlight
       IN IF shaped.throws
          THEN /\ pc' = "thrown"
               /\ exception' = InfeasibleError
               /\ queryResult' =
                      [queryResult EXCEPT
                          !.operation = "computeShapedTrajectoryAndFullPropagation",
                          !.isMassPropagated = isMassPropagated,
                          !.integratorSettingsAtCall = integratorSettings,
                          !.fullPropagationResults = EmptyMap,
                          !.shapingMethodResults = EmptyMap,
                          !.dependentVariablesHistory = EmptyMap]
          ELSE /\ pc' = IF isMassPropagated THEN "massPropagation" ELSE "forwardPropagation"
               /\ exception' = exception
               /\ queryResult' =
                      [queryResult EXCEPT
                          !.operation = "computeShapedTrajectoryAndFullPropagation",
                          !.isMassPropagated = isMassPropagated,
                          !.integratorSettingsAtCall = integratorSettings,
                          !.fullPropagationResults = EmptyMap,
                          !.shapingMethodResults = EmptyMap,
                          !.dependentVariablesHistory = EmptyMap,
                          !.dataToInterpolate = shaped.table,
                          !.initialStateAtHalvedTimeOfFlight =
                              CurrentStateVector(
                                  CompositeFunctionsAt(radialDistanceCompositeFunction_,
                                                       elevationAngleCompositeFunction_,
                                                       shaped.value))]
    /\ UNCHANGED <<propagationFrame, integratorSettings>>

\* lines 1134-1154: the mass is propagated from time 0 until half of the time
\* of flight
PropagateMassUntilHalvedTimeOfFlight(throws) ==
    /\ pc = "massPropagation"
    /\ LET settings == [integratorSettings EXCEPT !.initialTime_ = 0]
           propagatedMass ==
               PropagatedMass(settings, HalvedTimeOfFlight(NormalizedTimeOfFlight.value))
       IN /\ integratorSettings' = settings
          /\ IF throws
             THEN /\ pc' = "thrown"
                  /\ exception' = PropagationError
                  /\ queryResult' =
                         [queryResult EXCEPT
                             !.propagations =
                                 Append(@, Propagation("dynamicsSimulator", settings, <<>>,
                                                       BodyMass, EmptyMap, TRUE))]
             ELSE /\ pc' = "forwardPropagation"
                  /\ exception' = exception
                  /\ queryResult' =
                         [queryResult EXCEPT
                             !.massAtHalvedTimeOfFlight = LastValue(propagatedMass),
                             !.propagations =
                                 Append(@, Propagation("dynamicsSimulator", settings, <<>>,
                                                       BodyMass, propagatedMass, FALSE))]
    /\ UNCHANGED propagationFrame

\* what a leg's results add to the three maps
ResultsWith(results, stateHistory) ==
    [results EXCEPT
        !.shapingMethodResults =
            SaveResults(@, ShapingMethodStates(stateHistory, results.dataToInterpolate)),
        !.fullPropagationResults = SaveResults(@, stateHistory),
        !.dependentVariablesHistory =
            SaveResults(@, DependentVariablesAt(
                               stateHistory,
                               DependentVariableHistory(stateHistory,
                                                        results.dependentVariablesToSave)))]

\* a leg: the simulator is made with the settings the object holds and, unless
\* it raises an error, its results are saved
PropagateLeg(simulator, settings, steps, throws) ==
    LET stateHistory == IF throws THEN EmptyMap ELSE StateHistory(simulator, settings, steps)
        propagation == Propagation(simulator, settings,
                                   queryResult.initialStateAtHalvedTimeOfFlight,
                                   queryResult.massAtHalvedTimeOfFlight, stateHistory, throws)
        results == [queryResult EXCEPT !.propagations = Append(@, propagation)]
    IN IF throws THEN results ELSE ResultsWith(results, stateHistory)

\* lines 1207-1244: the forward propagation and its results
PerformForwardPropagation(steps, throws) ==
    /\ pc = "forwardPropagation"
    /\ LET settings ==
               [integratorSettings EXCEPT
                   !.initialTime_ = HalvedTimeOfFlight(NormalizedTimeOfFlight.value)]
       IN /\ integratorSettings' = settings
          /\ queryResult' = PropagateLeg("dynamicsSimulatorIntegrationForwards", settings,
                                         steps, throws)
    /\ pc' = IF throws THEN "thrown" ELSE "backwardPropagation"
    /\ exception' = IF throws THEN PropagationError ELSE exception
    /\ UNCHANGED propagationFrame

\* Variant: the backward leg made without negating the initial time step
BackwardPropagatorSettingsNotNegated(settings, halvedTimeOfFlight) ==
    [initialTimeStep_ |-> settings.initialTimeStep_, initialTime_ |-> halvedTimeOfFlight]

\* lines 1247-1249: Define backward propagator settings variables
BackwardPropagatorSettings(settings, halvedTimeOfFlight) ==
    [initialTimeStep_ |-> Minus(0, settings.initialTimeStep_),
     initialTime_ |-> halvedTimeOfFlight]

\* lines 1247-1269: the backward propagation and its results
PerformBackwardPropagation(steps, throws) ==
    /\ pc = "backwardPropagation"
    /\ LET settings ==
               BackwardPropagatorSettings(integratorSettings,
                                          HalvedTimeOfFlight(NormalizedTimeOfFlight.value))
       IN /\ integratorSettings' = settings
          /\ queryResult' = PropagateLeg("dynamicsSimulatorIntegrationBackwards", settings,
                                         steps, throws)
    /\ pc' = IF throws THEN "thrown" ELSE "resetInitialIntegratorSettings"
    /\ exception' = IF throws THEN PropagationError ELSE exception
    /\ UNCHANGED propagationFrame

\* lines 1271-1272: Reset initial integrator settings
ResetInitialIntegratorSettings ==
    /\ pc = "resetInitialIntegratorSettings"
    /\ integratorSettings' =
           [integratorSettings EXCEPT
               !.initialTimeStep_ = Minus(0, integratorSettings.initialTimeStep_)]
    /\ pc' = "returned"
    /\ UNCHANGED <<propagationFrame, exception, queryResult>>

\* a constructed object (the constructor's all-1.0 coefficients, from the
\* initial azimuth angle 3 PI/2 to 2 PI or 5 PI/2) and what the caller hands to
\* computeShapedTrajectoryAndFullPropagation
InitFullPropagation ==
    /\ initialState = [azimuth |-> -1]
    /\ finalState \in [azimuth : {0, 1}]
    /\ numberOfRevolutions_ = 0
    /\ initialAzimuthAngle_ = NormalizedAzimuth(initialState.azimuth)
    /\ finalAzimuthAngle_ = FinalAzimuthAngle(NormalizedAzimuth(initialState.azimuth),
                                              NormalizedAzimuth(finalState.azimuth),
                                              numberOfRevolutions_)
    /\ coefficientsRadialDistanceFunction_ = InitialCoefficients(7)
    /\ coefficientsElevationAngleFunction_ = InitialCoefficients(4)
    /\ radialDistanceCompositeFunction_ = InitialCoefficients(7)
    /\ elevationAngleCompositeFunction_ = InitialCoefficients(4)
    /\ quadratureSettings_ = initialAzimuthAngle_
    /\ requiredTimeOfFlight_ = NormalizedTimeOfFlight.value
    /\ integratorSettings \in [initialTimeStep_ : StepSizes, initialTime_ : {0, JULIAN_YEAR}]
    /\ initialValueFreeCoefficient_ \in FreeCoefficientValues
    /\ travelledAzimuthAngle_ = PI \div 2 + 2 * PI * 2
    /\ requiredGamma_ = -25
    /\ interpolator_ = DataToInterpolate(radialDistanceCompositeFunction_,
                                         elevationAngleCompositeFunction_,
                                         initialAzimuthAngle_,
                                         integratorSettings.initialTimeStep_).table
    /\ pc = "constructed"
    /\ iterations = 0
    /\ trials = <<>>
    /\ evaluationTrace = <<>>
    /\ updatedFreeCoefficient = initialValueFreeCoefficient_
    /\ thrown = NoError
    /\ exception = NoError
    /\ \E stale \in StaleResults, dependentVariablesToSave \in BOOLEAN :
           queryResult = [operation |-> NoQuery.operation,
                          isMassPropagated |-> FALSE,
                          dependentVariablesToSave |-> dependentVariablesToSave,
                          integratorSettingsAtCall |-> NoSettings,
                          dataToInterpolate |-> EmptyMap,
                          initialStateAtHalvedTimeOfFlight |-> <<>>,
                          massAtHalvedTimeOfFlight |-> NaN,
                          propagations |-> <<>>,
                          resultsAtCall |-> stale,
                          fullPropagationResults |-> stale,
                          shapingMethodResults |-> stale,
                          dependentVariablesHistory |-> stale]

NextFullPropagation ==
    \/ \E isMassPropagated \in BOOLEAN : ComputeStateAtHalvedTimeOfFlight(isMassPropagated)
    \/ \E throws \in BOOLEAN : PropagateMassUntilHalvedTimeOfFlight(throws)
    \/ \E steps \in 0 .. MaxPropagationSteps, throws \in BOOLEAN :
           \/ PerformForwardPropagation(steps, throws)
           \/ PerformBackwardPropagation(steps, throws)
    \/ ResetInitialIntegratorSettings

SpecFullPropagation == InitFullPropagation /\ [][NextFullPropagation]_vars

\* ------------------------------------------------------------------------
\* The exponential-sinusoid integrals called on a constructed object.  Both
\* make their quadrature from quadratureSettings_, the member the constructor
\* sets three times, and integrate up to travelledAzimuthAngle_; what they give
\* back is written here as the interval the quadrature is taken over.
\* ------------------------------------------------------------------------
\* createQuadrature( integrand, quadratureSettings_, travelledAzimuthAngle_ )
QuadratureInterval(settings, upperBound) == <<settings, upperBound>>

\* computeNormalizedTimeOfFlightExposins( )
ComputeNormalizedTimeOfFlightExposins ==
    /\ Callable("computeNormalizedTimeOfFlightExposins", 0)
    /\ queryResult' = Answer("computeNormalizedTimeOfFlightExposins", 0,
                             Returned(QuadratureInterval(quadratureSettings_,
                                                         travelledAzimuthAngle_)))
    /\ UNCHANGED queryFrame

\* computeDeltaVExposins( )
ComputeDeltaVExposins ==
    /\ Callable("computeDeltaVExposins", 0)
    /\ queryResult' = Answer("computeDeltaVExposins", 0,
                             Returned(QuadratureInterval(quadratureSettings_,
                                                         travelledAzimuthAngle_)))
    /\ UNCHANGED queryFrame

NextIntegrals ==
    \/ SetUpShapeFunctions
    \/ \E inputValue \in FreeCoefficientValues : EvaluateTimeOfFlightFunction(inputValue)
    \/ \E i \in 1 .. MaxIterations : RootFinderReturns(i)
    \/ RootFinderFails
    \/ \E inputValue \in GammaValues : EvaluateTimeOfFlightFunctionExposins(inputValue)
    \/ \E i \in 1 .. MaxIterations : RootFinderExposinsReturns(i)
    \/ RootFinderExposinsFails
    \/ ComputeTimeOfFlight
    \/ ComputeDeltaV
    \/ \E angle \in QueryAngles : ComputeCurrentTimeFromAzimuthAngle(angle)
    \/ ComputeNormalizedTimeOfFlightExposins
    \/ ComputeDeltaVExposins

SpecIntegrals == Init /\ [][NextIntegrals]_vars

\* ------------------------------------------------------------------------
\* The other members of TimeOfFlightFunction.  The object lives while
\* iterateToMatchRequiredTimeOfFlight runs, in the hands of the root-finder
\* made from rootFinderSettings_; a root-finder may call any member of
\* BasicFunction.  queryResult records the call.
\* ------------------------------------------------------------------------
MaxOrder == 2

DerivativeError ==
    [type |-> "std::runtime_error",
     what |-> "The rootfinder for TOF should not evaluate derivatives!"]

IntegralError ==
    [type |-> "std::runtime_error",
     what |-> "The rootfinder for TOF should not evaluate integrals!"]

Thrown == [throws |-> TRUE, value |-> <<>>]

TimeOfFlightFunctionGetters ==
    {"getTrueRootLocation", "getTrueRootAccuracy", "getInitialGuess", "getLowerBound",
     "getUpperBound"}

\* what is left alone by the members that do not evaluate
rootFinderFrame == <<inputVars, coefficientVars, quadratureSettings_, travelledAzimuthAngle_,
                     requiredGamma_, interpolator_, iterations, trials, evaluationTrace,
                     updatedFreeCoefficient>>

\* Variant: a derivative by differences, which resets the free coefficient to
\* the input value and gives a value back
ComputeDerivativeByDifferences(order, inputValue) ==
    /\ pc = "iterateToMatchRequiredTimeOfFlight"
    /\ initialValueFreeCoefficient_' = inputValue
    /\ queryResult' = Answer("computeDerivative", <<order, inputValue>>,
                             Scalar(Returned(Minus(requiredTimeOfFlight_, inputValue))))
    /\ UNCHANGED <<rootFinderFrame, pc, thrown, exception>>

\* computeDerivative( order, inputValue )
ComputeDerivative(order, inputValue) ==
    /\ pc = "iterateToMatchRequiredTimeOfFlight"
    /\ queryResult' = Answer("computeDerivative", <<order, inputValue>>, Thrown)
    /\ LET out == IterateToMatchPropagates(DerivativeError,
                                           "iterateToMatchRequiredTimeOfFlight")
       IN /\ thrown' = DerivativeError
          /\ pc' = out.pc
          /\ exception' = out.exception
    /\ UNCHANGED <<rootFinderFrame, initialValueFreeCoefficient_>>

\* computeDefiniteIntegral( order, lowerBound, upperbound )
ComputeDefiniteIntegral(order, lowerBound, upperbound) ==
    /\ pc = "iterateToMatchRequiredTimeOfFlight"
    /\ queryResult' = Answer("computeDefiniteIntegral", <<order, lowerBound, upperbound>>,
                             Thrown)
    /\ LET out == IterateToMatchPropagates(IntegralError,
                                           "iterateToMatchRequiredTimeOfFlight")
       IN /\ thrown' = IntegralError
          /\ pc' = out.pc
          /\ exception' = out.exception
    /\ UNCHANGED <<rootFinderFrame, initialValueFreeCoefficient_>>

\* getTrueRootLocation( ), getTrueRootAccuracy( ), getInitialGuess( ),
\* getLowerBound( ), getUpperBound( )
GetFromTimeOfFlightFunction(getter) ==
    /\ pc = "iterateToMatchRequiredTimeOfFlight"
    /\ queryResult.operation \in {NoQuery.operation, getter}
    /\ queryResult' = Answer(getter, 0, Scalar(Returned(TUDAT_NAN)))
    /\ UNCHANGED queryFrame

NextTimeOfFlightFunction ==
    \/ SetUpShapeFunctions
    \/ \E inputValue \in FreeCoefficientValues : EvaluateTimeOfFlightFunction(inputValue)
    \/ \E i \in 1 .. MaxIterations : RootFinderReturns(i)
    \/ RootFinderFails
    \/ \E order \in 1 .. MaxOrder, inputValue \in FreeCoefficientValues :
           ComputeDerivative(order, inputValue)
    \/ \E order \in 1 .. MaxOrder, lowerBound, upperbound \in FreeCoefficientValues :
           ComputeDefiniteIntegral(order, lowerBound, upperbound)
    \/ \E getter \in TimeOfFlightFunctionGetters : GetFromTimeOfFlightFunction(getter)

SpecTimeOfFlightFunction == Init /\ [][NextTimeOfFlightFunction]_vars

\* ------------------------------------------------------------------------
\* Properties
\* ------------------------------------------------------------------------
\* the time-equation radicand of the shape the object holds, at an azimuth angle
Radicand(currentAzimuthAngle) ==
    ScalarFunctionTimeEquation(CompositeFunctionsAt(radialDistanceCompositeFunction_,
                                                    elevationAngleCompositeFunction_,
                                                    currentAzimuthAngle))

\* the angles at which the time integrand is evaluated between two bounds
NegativeRadicandBetween(lowerBound, upperBound) ==
    \E t \in QuadratureNodes(lowerBound, upperBound) : LessThanZero(Radicand(t))

IterateToMatchRequiredTimeOfFlightReturned == updatedFreeCoefficient # NaN

\* C1: once iterateToMatchRequiredTimeOfFlight has returned normally, the time
\* of flight computed on the coefficients the object holds meets the required
\* one within the root-finder's tolerance, and the free coefficient and the
\* coefficient vector the object retains are those of the returned root.
C1_ConvergedCoefficientsRetained ==
    IterateToMatchRequiredTimeOfFlightReturned =>
        /\ LET timeOfFlight == TimeIntegral(radialDistanceCompositeFunction_,
                                            elevationAngleCompositeFunction_,
                                            initialAzimuthAngle_, finalAzimuthAngle_)
           IN /\ ~timeOfFlight.throws
              /\ IsRoot(Minus(requiredTimeOfFlight_, timeOfFlight.value))
        /\ initialValueFreeCoefficient_ = updatedFreeCoefficient
        /\ coefficientsRadialDistanceFunction_[2] = updatedFreeCoefficient

\* C3: the final azimuth angle the constructor computes is strictly greater
\* than the initial azimuth angle, for every pair of boundary azimuths and
\* every number of revolutions.
C3_FinalAzimuthStrictlyGreater ==
    pc # "ExposinsShaping" => finalAzimuthAngle_ > initialAzimuthAngle_

\* C4: for the same boundary states, one more requested revolution gives a
\* final azimuth angle larger by exactly 2 PI and the same initial azimuth
\* angle, whichever branch of the wrap correction is taken.
C4_RevolutionAddsFullTurn ==
    pc # "ExposinsShaping" =>
        /\ FinalAzimuthAngle(NormalizedAzimuth(initialState.azimuth),
                             NormalizedAzimuth(finalState.azimuth),
                             numberOfRevolutions_ + 1) = finalAzimuthAngle_ + 2 * PI
        /\ initialAzimuthAngle_ = NormalizedAzimuth(initialState.azimuth)

C4_WrapBranchWithRevolution ==
    /\ pc # "ExposinsShaping"
    /\ NormalizedAzimuth(finalState.azimuth) < NormalizedAzimuth(initialState.azimuth)
    /\ numberOfRevolutions_ = 1
    /\ finalAzimuthAngle_ = NormalizedAzimuth(finalState.azimuth) + 4 * PI

\* C5: every evaluation of the time-of-flight objective sets the free
\* coefficient, re-solves the boundary conditions, computes the time of flight
\* and takes the required time of flight, in this order, so the coefficients
\* the time of flight is computed from are those of the trial value.
C5_EvaluationResolvesBoundaryConditions ==
    evaluationTrace # <<>> =>
        /\ \E n \in 3 .. 4 :
               evaluationTrace = SubSeq(<<"resetFreeCoefficientFunction_",
                                          "satisfyBoundaryConditionsFunction_",
                                          "computeTimeOfFlightFunction_",
                                          "getRequiredTimeOfFlightfunction_">>, 1, n)
        /\ coefficientsRadialDistanceFunction_[2] = initialValueFreeCoefficient_

\* C6: an infeasible trial evaluation in the root-finding loop ends the
\* construction with the infeasible error at the constructor's caller: the
\* exponential-sinusoid root-finding and the table build have not run and no
\* object can be queried.
C6_InfeasibleTrialEndsConstruction ==
    (thrown = InfeasibleError /\ ~IterateToMatchRequiredTimeOfFlightReturned) =>
        /\ pc = "failed"
        /\ exception = InfeasibleError
        /\ travelledAzimuthAngle_ = NaN
        /\ requiredGamma_ = NaN
        /\ interpolator_ = <<>>
        /\ queryResult.operation = NoQuery.operation

C6_InfeasibleTrialSeen ==
    /\ thrown = InfeasibleError
    /\ iterations = 1
    /\ NegativeRadicandBetween(initialAzimuthAngle_, finalAzimuthAngle_)
    /\ pc = "failed"

\* C7: computeNormalizedTimeOfFlight, computeCurrentTimeFromAzimuthAngle and
\* convertIndependentVariableToTime raise the infeasible error exactly when
\* the radicand is strictly negative at an angle where the integrand is
\* evaluated; a radicand of zero is accepted and gives the integrand zero.
C7_InfeasibleExactlyOnNegativeRadicand ==
    /\ queryResult.operation \in {"computeCurrentTimeFromAzimuthAngle",
                                  "convertIndependentVariableToTime"} =>
           (queryResult.throws <=>
                NegativeRadicandBetween(quadratureSettings_, queryResult.argument))
    /\ queryResult.operation = "computeTimeOfFlight" =>
           (queryResult.throws <=>
                NegativeRadicandBetween(quadratureSettings_, finalAzimuthAngle_))
    /\ evaluationTrace # <<>> =>
           (Len(evaluationTrace) = 2 <=>
                NegativeRadicandBetween(initialAzimuthAngle_, finalAzimuthAngle_))
    /\ pc # "ExposinsShaping" =>
           \A t \in QueryAngles :
               Radicand(t) = 0 =>
                   DerivativeTimeFunction(radialDistanceCompositeFunction_,
                                          elevationAngleCompositeFunction_, t)
                       = [throws |-> FALSE, value |-> 0]

C7_NegativeAndZeroRadicandEvaluated ==
    /\ queryResult.operation = "computeCurrentTimeFromAzimuthAngle"
    /\ queryResult.throws
    /\ \E t \in QuadratureNodes(quadratureSettings_, queryResult.argument) : Radicand(t) = 0

\* C8: where the radicand is negative at the queried angle, every operation
\* that takes its square root raises the infeasible error and returns no value:
\* computeFirstDerivativeAzimuthAngleWrtTime, the state and thrust-acceleration
\* queries, and computeDeltaV for the angles it integrates over.
C8_SquareRootOperationsRaiseInfeasible ==
    /\ (/\ queryResult.operation \in {"computeFirstDerivativeAzimuthAngleWrtTime",
                                       "computeCurrentStateVector",
                                       "computeCurrentThrustAccelerationMagnitude"}
        /\ LessThanZero(Radicand(queryResult.argument))) => queryResult.throws
    /\ (/\ queryResult.operation = "computeDeltaV"
        /\ NegativeRadicandBetween(quadratureSettings_, finalAzimuthAngle_)) =>
           queryResult.throws

C10_NonConvergenceEndsConstruction ==
    thrown.type = "root-finder" =>
        /\ pc = "failed"
        /\ exception = thrown
        /\ exception.iterations = MaxIterations
        /\ \A i \in 1 .. Len(trials) : ~IsRoot(trials[i].residual)
        /\ interpolator_ = <<>>
        /\ queryResult.operation = NoQuery.operation

C10_BudgetSpentInBothRootFinders ==
    /\ thrown.type = "root-finder"
    /\ pc = "failed"
    /\ IterateToMatchRequiredTimeOfFlightReturned
    /\ Len(trials) = MaxIterations

\* C19: on a constructed object the required gamma is the one the
\* exponential-sinusoid root-finding found between the bounds on gamma: the
\* exponential-sinusoid time of flight for it is the required time of flight.
C19_RequiredGammaIsRootFound ==
    pc = "constructed" =>
        /\ lowerBoundGamma_ <= requiredGamma_ /\ requiredGamma_ <= upperBoundGamma_
        /\ IsRoot(Minus(requiredTimeOfFlight_, NormalizedTimeOfFlightExposins(requiredGamma_)))

\* C20: the travelled azimuth angle is the final azimuth angle minus the
\* initial azimuth angle, for every pair of boundary azimuths and every number
\* of revolutions.
C20_TravelledAzimuthAngleIsSweptAngle ==
    travelledAzimuthAngle_ # NaN =>
        travelledAzimuthAngle_ = Minus(finalAzimuthAngle_, initialAzimuthAngle_)

\* C13: for an angle strictly between the initial and the final azimuth angle
\* that the table holds, the time convertIndependentVariableToTime returns for
\* it is brought back to the angle by convertTimeToIndependentVariable.
C13_TimeAngleRoundTrip ==
    (/\ queryResult.operation = "convertIndependentVariableToTime"
     /\ ~queryResult.throws
     /\ initialAzimuthAngle_ < queryResult.argument
     /\ queryResult.argument < finalAzimuthAngle_
     /\ \E key \in DOMAIN interpolator_ : interpolator_[key] = queryResult.argument) =>
        Interpolate(interpolator_, queryResult.value[1]) = queryResult.argument

\* C14: computeCurrentTimeFromAzimuthAngle and convertIndependentVariableToTime
\* at the final azimuth angle return what computeTimeOfFlight returns.
C14_TimeAtFinalAngleIsTimeOfFlight ==
    (/\ queryResult.operation \in {"computeCurrentTimeFromAzimuthAngle",
                                   "convertIndependentVariableToTime"}
     /\ queryResult.argument = finalAzimuthAngle_) =>
        LET timeOfFlight == Scalar(DimensionalTime(NormalizedTimeOfFlight))
        IN /\ queryResult.throws = timeOfFlight.throws
           /\ queryResult.value = timeOfFlight.value

\* C18: the table of a constructed object starts at time 0 with the initial
\* azimuth angle, ends at the time of flight with the final azimuth angle, and
\* its angles increase strictly with its times, whatever the number of samples.
C18_TableSpansTrajectory ==
    pc = "constructed" =>
        LET timeOfFlight == DimensionalTime(NormalizedTimeOfFlight)
            epochs == DOMAIN interpolator_
        IN /\ 0 \in epochs
           /\ interpolator_[0] = initialAzimuthAngle_
           /\ ~timeOfFlight.throws
           /\ timeOfFlight.value \in epochs
           /\ interpolator_[timeOfFlight.value] = finalAzimuthAngle_
           /\ \A epoch \in epochs : epoch <= timeOfFlight.value
           /\ \A earlier, later \in epochs :
                  earlier < later => interpolator_[earlier] < interpolator_[later]

C17_TableBuiltOnceFromConvergedCoefficients ==
    [][/\ pc # "constructed" => interpolator_ = <<>>
       /\ pc = "constructed" =>
              /\ interpolator_' = interpolator_
              /\ interpolator_ = DataToInterpolate(radialDistanceCompositeFunction_,
                                                   elevationAngleCompositeFunction_,
                                                   initialAzimuthAngle_,
                                                   integratorSettings.initialTimeStep_).table
              /\ radialDistanceCompositeFunction_[2] = updatedFreeCoefficient]_vars

\* the part of C17 about when the table is written
TableWrittenByConstructorOnly ==
    [][/\ pc # "constructed" => interpolator_ = <<>>
       /\ pc = "constructed" => interpolator_' = interpolator_]_vars

\* the boundary-condition matrix of the object's boundary states and angles
\* has no inverse
SingularBoundaryConditions ==
    IsSingular(MatrixBoundaryConditions(StateSphericalCoordinates(initialState),
                                        StateSphericalCoordinates(finalState),
                                        initialAzimuthAngle_, finalAzimuthAngle_))

\* C11: when the boundary-condition matrix is singular, satisfyBoundaryConditions
\* ends with a configuration error: it leaves the coefficients and the composite
\* functions as the constructor set them.
C11_SingularMatrixIsConfigurationError ==
    (evaluationTrace = <<"satisfyBoundaryConditions">> /\ SingularBoundaryConditions) =>
        /\ thrown # NoError
        /\ coefficientsRadialDistanceFunction_ = InitialCoefficients(7)
        /\ coefficientsElevationAngleFunction_ = InitialCoefficients(4)
        /\ radialDistanceCompositeFunction_ = InitialCoefficients(7)
        /\ elevationAngleCompositeFunction_ = InitialCoefficients(4)

\* the boundary conditions have been solved for a matrix that has an inverse
RegularBoundaryConditionsSolved ==
    evaluationTrace = <<"satisfyBoundaryConditions">> /\ ~SingularBoundaryConditions

\* C15: once the constructor has initialised the coefficients, the radial
\* coefficient vector has exactly 7 entries and the elevation one exactly 4, the
\* numbers of component functions of the composite functions they are handed to.
C15_CoefficientVectorsMatchBasis ==
    pc = "iterateToMatchRequiredTimeOfFlight" =>
        /\ DOMAIN coefficientsRadialDistanceFunction_ = RadialIndices
        /\ DOMAIN coefficientsElevationAngleFunction_ = ElevationIndices

\* what a thread obtains when it runs alone: it reads the step size the
\* IntegratorSettings object was made with, builds its table for it, and its
\* propagations run from time 0 and from half of its own time of flight, the
\* backward one with the negated step size
ResultsOfThreadAlone(thread) ==
    \E stepSize \in StepSizes :
        LET results == queryResult[thread]
            halvedTimeOfFlight == HalvedTimeOfFlight(TimeOfFlightOf(thread).value)
        IN /\ results.constructorStepSize = stepSize
           /\ interpolator_[thread] = TableOf(thread, stepSize)
           /\ results.initialStepSize = stepSize
           /\ results.isMassPropagated =>
                  results.massPropagation =
                      [initialTimeStep_ |-> stepSize, initialTime_ |-> 0]
           /\ results.forwardPropagation =
                  [initialTimeStep_ |-> stepSize, initialTime_ |-> halvedTimeOfFlight]
           /\ results.backwardPropagation =
                  [initialTimeStep_ |-> -stepSize, initialTime_ |-> halvedTimeOfFlight]

\* C16: under every interleaving, a thread that has constructed its instance
\* and run computeShapedTrajectoryAndFullPropagation on it has obtained what it
\* obtains running alone, the IntegratorSettings object being shared.
C16_ThreadsDoNotInterfere ==
    \A thread \in Threads : pc[thread] = "done" => ResultsOfThreadAlone(thread)

\* a thread has run to its end
ThreadRanAlone ==
    /\ pc[1] = "done"
    /\ pc[2] = "ExposinsShaping"
    /\ ResultsOfThreadAlone(1)

\* C21: getInfeasibleTOF returns a defined value: on an object whose
\* construction ended, so that both root-findings converged, it returns false.
C21_InfeasibleTOFReportsFeasibility ==
    queryResult.operation = "getInfeasibleTOF" =>
        /\ ~queryResult.throws
        /\ queryResult.value = <<FALSE>>

FullPropagationCalled == queryResult.operation = "computeShapedTrajectoryAndFullPropagation"

\* the simulators the function makes, in the order of the source
SimulatorsInOrder ==
    IF queryResult.isMassPropagated
    THEN <<"dynamicsSimulator", "dynamicsSimulatorIntegrationForwards",
           "dynamicsSimulatorIntegrationBackwards">>
    ELSE <<"dynamicsSimulatorIntegrationForwards", "dynamicsSimulatorIntegrationBackwards">>

\* the state history of a simulator of the call
HistoryOf(simulator) ==
    LET run == CHOOSE i \in DOMAIN queryResult.propagations :
                   queryResult.propagations[i].simulator = simulator
    IN queryResult.propagations[run].stateHistory

\* C23: when computeShapedTrajectoryAndFullPropagation returns normally, the
\* caller's integrator settings have the values they had before the call, the
\* initial time step and the initial time both, with and without mass
\* propagation.
C23_IntegratorSettingsAsBeforeTheCall ==
    (FullPropagationCalled /\ pc = "returned") =>
        /\ integratorSettings.initialTimeStep_ =
               queryResult.integratorSettingsAtCall.initialTimeStep_
        /\ integratorSettings.initialTime_ =
               queryResult.integratorSettingsAtCall.initialTime_

\* C24: the propagations run in a fixed order from a common midpoint: the mass
\* propagation first (only when the mass is propagated), from epoch 0 until
\* half of the time of flight, its final mass being the initial mass of both
\* legs; then the forward leg with the caller's time step, then the backward
\* leg with the negated step, both from the epoch of half of the time of flight
\* and from the state of the shaped trajectory at that epoch.
C24_PropagationsInOrderFromMidpoint ==
    FullPropagationCalled =>
        LET runs == queryResult.propagations
            atCall == queryResult.integratorSettingsAtCall
            midpoint == HalvedTimeOfFlight(NormalizedTimeOfFlight.value)
            stateAtMidpoint ==
                CurrentStateVector(
                    CompositeFunctionsAt(radialDistanceCompositeFunction_,
                                         elevationAngleCompositeFunction_,
                                         Interpolate(interpolator_, midpoint)))
        IN /\ Len(runs) <= Len(SimulatorsInOrder)
           /\ pc = "returned" => Len(runs) = Len(SimulatorsInOrder)
           /\ \A i \in DOMAIN runs :
                  /\ runs[i].simulator = SimulatorsInOrder[i]
                  /\ \A j \in 1 .. i - 1 : ~runs[j].throws
                  /\ runs[i].simulator = "dynamicsSimulator" =>
                         /\ runs[i].integratorSettings.initialTime_ = 0
                         /\ runs[i].integratorSettings.initialTimeStep_ = atCall.initialTimeStep_
                         /\ runs[i].initialMass = BodyMass
                         /\ ~runs[i].throws =>
                                /\ midpoint \in DOMAIN runs[i].stateHistory
                                /\ \A epoch \in DOMAIN runs[i].stateHistory :
                                       0 <= epoch /\ epoch <= midpoint
                                /\ queryResult.massAtHalvedTimeOfFlight =
                                       runs[i].stateHistory[midpoint][1]
                  /\ runs[i].simulator # "dynamicsSimulator" =>
                         /\ runs[i].integratorSettings.initialTime_ = midpoint
                         /\ runs[i].initialState = stateAtMidpoint
                         /\ runs[i].initialMass = queryResult.massAtHalvedTimeOfFlight
                         /\ queryResult.isMassPropagated =>
                                runs[i].initialMass = runs[1].stateHistory[midpoint][1]
                  /\ runs[i].simulator = "dynamicsSimulatorIntegrationForwards" =>
                         runs[i].integratorSettings.initialTimeStep_ = atCall.initialTimeStep_
                  /\ runs[i].simulator = "dynamicsSimulatorIntegrationBackwards" =>
                         runs[i].integratorSettings.initialTimeStep_ =
                             0 - atCall.initialTimeStep_

C24_ThreePropagationsRun ==
    /\ FullPropagationCalled
    /\ pc = "returned"
    /\ queryResult.isMassPropagated
    /\ Len(queryResult.propagations) = 3
    /\ queryResult.massAtHalvedTimeOfFlight # BodyMass
    /\ queryResult.propagations[3].initialMass = queryResult.massAtHalvedTimeOfFlight
    /\ Cardinality(DOMAIN queryResult.propagations[2].stateHistory) > 1
    /\ Cardinality(DOMAIN queryResult.propagations[3].stateHistory) > 1

\* C25: when computeShapedTrajectoryAndFullPropagation returns, the three
\* result maps have the same key set, the union of the epochs of the forward
\* and of the backward propagation, and no entry they held before the call;
\* for an epoch of both legs the values of the backward leg are the ones kept.
C25_ResultMapsHoldBothLegs ==
    (FullPropagationCalled /\ pc = "returned") =>
        LET forwards == HistoryOf("dynamicsSimulatorIntegrationForwards")
            backwards == HistoryOf("dynamicsSimulatorIntegrationBackwards")
            epochs == DOMAIN forwards \union DOMAIN backwards
        IN /\ DOMAIN queryResult.fullPropagationResults = epochs
           /\ DOMAIN queryResult.shapingMethodResults = epochs
           /\ DOMAIN queryResult.dependentVariablesHistory = epochs
           /\ DOMAIN queryResult.resultsAtCall \intersect epochs = {}
           /\ \A epoch \in epochs :
                  /\ queryResult.fullPropagationResults[epoch] =
                         IF epoch \in DOMAIN backwards THEN backwards[epoch]
                         ELSE forwards[epoch]
                  /\ queryResult.dependentVariablesHistory[epoch] =
                         IF ~queryResult.dependentVariablesToSave THEN <<>>
                         ELSE IF epoch \in DOMAIN backwards THEN backwards[epoch]
                         ELSE forwards[epoch]

C25_StaleResultsAndCommonEpoch ==
    /\ FullPropagationCalled
    /\ pc = "returned"
    /\ queryResult.resultsAtCall # EmptyMap
    /\ queryResult.dependentVariablesToSave
    /\ LET forwards == HistoryOf("dynamicsSimulatorIntegrationForwards")
           backwards == HistoryOf("dynamicsSimulatorIntegrationBackwards")
       IN /\ DOMAIN forwards \intersect DOMAIN backwards # {}
          /\ DOMAIN forwards \ DOMAIN backwards # {}
          /\ DOMAIN backwards \ DOMAIN forwards # {}

\* C26: computeShapedTrajectoryAndFullPropagation leaves the sign of the
\* caller's initial time step as it found it on every way out, also when a
\* propagation raises an error after the step has been negated.
C26_StepSignKeptOnEveryExit ==
    (FullPropagationCalled /\ pc \in {"returned", "thrown"}) =>
        (integratorSettings.initialTimeStep_ > 0) =
            (queryResult.integratorSettingsAtCall.initialTimeStep_ > 0)

\* ------------------------------------------------------------------------
\* The lower bound of the quadrature (SpecIntegrals)
\* ------------------------------------------------------------------------
\* C27: the lower bound of the quadrature matches the integral evaluated: the
\* integrals of the general shaping (time of flight, current time, deltaV) are
\* taken from initialAzimuthAngle_ and the exponential-sinusoid integrals
\* (computeNormalizedTimeOfFlightExposins, computeDeltaVExposins) from 0,
\* while the constructor runs and after it.
C27_LowerBoundMatchesIntegral ==
    /\ pc = "iterateToMatchRequiredTimeOfFlight" => quadratureSettings_ = initialAzimuthAngle_
    /\ pc = "iterateToMatchRequiredTimeOfFlightExposins" => quadratureSettings_ = 0
    /\ queryResult.operation \in {"computeTimeOfFlight", "computeDeltaV",
                                  "computeCurrentTimeFromAzimuthAngle"} =>
           quadratureSettings_ = initialAzimuthAngle_
    /\ queryResult.operation \in {"computeNormalizedTimeOfFlightExposins",
                                  "computeDeltaVExposins"} =>
           queryResult.value[1] = 0

\* ------------------------------------------------------------------------
\* TimeOfFlightFunction (SpecTimeOfFlightFunction)
\* ------------------------------------------------------------------------
\* C28: TimeOfFlightFunction offers evaluation only: computeDerivative and
\* computeDefiniteIntegral raise an error whatever their arguments and leave
\* the free coefficient and the coefficients of the shape alone, and
\* getTrueRootLocation, getTrueRootAccuracy, getInitialGuess, getLowerBound and
\* getUpperBound give NaN.
C28_EvaluationOnly ==
    [][/\ (pc = "iterateToMatchRequiredTimeOfFlight"
           /\ queryResult'.operation \in {"computeDerivative", "computeDefiniteIntegral"}) =>
              /\ queryResult'.throws
              /\ exception' = IF queryResult'.operation = "computeDerivative"
                              THEN DerivativeError ELSE IntegralError
              /\ pc' = "failed"
              /\ UNCHANGED <<initialValueFreeCoefficient_, coefficientVars>>
       /\ (pc = "iterateToMatchRequiredTimeOfFlight"
           /\ queryResult'.operation # queryResult.operation
           /\ queryResult'.operation \in TimeOfFlightFunctionGetters) =>
              /\ ~queryResult'.throws
              /\ queryResult'.value = <<TUDAT_NAN>>
              /\ UNCHANGED <<initialValueFreeCoefficient_, coefficientVars>>]_vars

C28_DerivativeAskedAfterEvaluation ==
    /\ queryResult.operation = "computeDerivative"
    /\ queryResult.throws
    /\ pc = "failed"
    /\ exception = DerivativeError
    /\ Len(trials) > 0
    /\ initialValueFreeCoefficient_ = trials[Len(trials)].inputValue
====
